---- MODULE Spec2Model ----
(***************************************************************************)
(* Knowledge-graph store (nodes, typed edges, review history), its SM-2    *)
(* scheduler and the operations of GraphService, as a state machine.       *)
(*                                                                         *)
(* Representation.  Values of [0,1] (difficulty, mastery, strength) and    *)
(* the ease factor are integers in hundredths (0.5 is 50, 2.5 is 250),     *)
(* times are whole days.  round() is Python's: the nearest integer of the  *)
(* exact quotient, a tie going to the even neighbour.  An Optional value   *)
(* is a sequence of length 0 (None) or 1.  A string that the code takes    *)
(* apart (a concept name, a node id) is a sequence of one-character        *)
(* strings.                                                                *)
(***************************************************************************)
EXTENDS Integers, Sequences, FiniteSets, TLC

VARIABLES nodes, edges, review_history, history_seq, now, result

vars == <<nodes, edges, review_history, history_seq, now, result>>

-----------------------------------------------------------------------------
(* Bounds of the model *)

MaxReviews == 1
MaxHistory == 2
MaxInterval == 10
MaxRepetitions == 3
\* Reviews recorded in the patch specification.
MaxPatchReviews == 2
\* Reviews recorded in the history specification.
MaxHistoryRows == 2
\* Longest edge list handed to the topological sort.
MaxSortEdges == 3
\* Largest depth asked of get_subgraph.
MaxDepth == 2
\* Largest limit asked of ready_to_learn.
MaxLimit == 3
\* Days that have passed in the stores of the recommendation specification.
MaxRecommendClock == 2
\* Days that pass in the patch specification.
MaxPatchClock == 1

\* Days that pass in the due specification.
MaxDueClock == 2

-----------------------------------------------------------------------------
(* Optional values *)

None == << >>

Some(v) == << v >>

IsNone(o) == o = << >>

Get(o) == o[1]

-----------------------------------------------------------------------------
(* Arithmetic helpers *)

Max(a, b) == IF a >= b THEN a ELSE b

Min(a, b) == IF a <= b THEN a ELSE b

Abs(a) == IF a >= 0 THEN a ELSE 0 - a

\* Mutant: int() in place of round().
Round_Truncate(n, d) == n \div d

\* Python round(n / d) for n >= 0, d > 0: nearest integer, a tie goes to the
\* even neighbour.
Round(n, d) ==
    LET q == n \div d
        r == n % d
    IN  IF 2 * r < d THEN q
        ELSE IF 2 * r > d THEN q + 1
        ELSE IF q % 2 = 0 THEN q
        ELSE q + 1

-----------------------------------------------------------------------------
(* RelationType *)

PREREQUISITE == "prerequisite"

RELATED_TO == "related_to"

RelationType == {PREREQUISITE, RELATED_TO}

-----------------------------------------------------------------------------
(* _generate_node_id: lower-case, every run of characters outside [a-z0-9] *)
(* becomes one "_", leading and trailing "_" are stripped, "" gives "node" *)

Lower(ch) ==
    CASE ch = "A" -> "a"
      [] ch = "B" -> "b"
      [] ch = "C" -> "c"
      [] OTHER -> ch

IsAlnum(ch) == ch \in {"a", "b", "c", "d", "e", "n", "o", "0", "1"}

RECURSIVE SubNonAlnum(_)
SubNonAlnum(s) ==
    IF s = << >> THEN << >>
    ELSE IF IsAlnum(Head(s)) THEN << Head(s) >> \o SubNonAlnum(Tail(s))
    ELSE IF Len(s) > 1 /\ ~IsAlnum(s[2]) THEN SubNonAlnum(Tail(s))
    ELSE << "_" >> \o SubNonAlnum(Tail(s))

RECURSIVE LStrip(_)
LStrip(s) ==
    IF s # << >> /\ Head(s) = "_" THEN LStrip(Tail(s)) ELSE s

RECURSIVE RStrip(_)
RStrip(s) ==
    IF s # << >> /\ s[Len(s)] = "_" THEN RStrip(SubSeq(s, 1, Len(s) - 1)) ELSE s

\* Mutant: the strip("_") step is missing.
_generate_node_id_NoStrip(concept) ==
    LET lowered == [i \in 1..Len(concept) |-> Lower(concept[i])]
        node_id == SubNonAlnum(lowered)
    IN  IF node_id = << >> THEN << "n", "o", "d", "e" >> ELSE node_id

_generate_node_id(concept) ==
    LET lowered == [i \in 1..Len(concept) |-> Lower(concept[i])]
        node_id == RStrip(LStrip(SubNonAlnum(lowered)))
    IN  IF node_id = << >> THEN << "n", "o", "d", "e" >> ELSE node_id

-----------------------------------------------------------------------------
(* Scheduler: spaced_repetition.py *)

calculate_overall_mastery(mastery_recall, mastery_application, mastery_explanation) ==
    Round(30 * mastery_recall + 40 * mastery_application + 30 * mastery_explanation, 100)

\* "abs(target - current_mastery) >= 0.05" in binary floating point.  The
\* hundredths decide it except at a gap of exactly 0.05, where the rounding
\* of the operands does: 0.4 - 0.35 is 0.050000000000000044 and 0.45 - 0.4
\* is 0.04999999999999999.  The pairs listed are those of the targets of
\* _calculate_suggested_mastery for which the comparison holds.
MeaningfulChange(target, current_mastery) ==
    LET gap == Abs(target - current_mastery)
    IN  IF gap # 5 THEN gap > 5
        ELSE <<target, current_mastery>> \in
                 {<<10, 5>>, <<40, 35>>, <<60, 65>>, <<75, 70>>, <<75, 80>>,
                  <<80, 75>>, <<90, 85>>, <<95, 90>>}

_calculate_suggested_mastery(quality, repetitions, current_mastery) ==
    LET target ==
            IF quality >= 4 /\ repetitions >= 4 THEN 90 + (quality - 4) * 5
            ELSE IF quality >= 4 /\ repetitions >= 2 THEN 75 + (quality - 4) * 5
            ELSE IF quality >= 3 /\ repetitions >= 2 THEN 60
            ELSE IF quality >= 3 THEN 40
            ELSE IF quality >= 2 THEN 25
            ELSE Max(10, current_mastery - 10)
    IN  IF MeaningfulChange(target, current_mastery) THEN Some(target) ELSE None

\* Mutant: the SM-2 formula without the max(1.3, ...) floor.
EaseAfter_NoFloor(quality, current_ease_factor) ==
    current_ease_factor + (10 - (5 - quality) * (8 + (5 - quality) * 2))

\* new_ease_factor of the SM-2 formula, floored at 1.3.
EaseAfter(quality, current_ease_factor) ==
    Max(130, current_ease_factor + (10 - (5 - quality) * (8 + (5 - quality) * 2)))

\* The failure branch of calculate_next_review: the ease factor after a
\* quality below 3.
FailureEase(new_ease_factor, current_ease_factor) ==
    Min(new_ease_factor, current_ease_factor)

\* The result is [error |-> "InvalidInput"] or the SM2Result with error "OK".
\* clock is datetime.now(), in days.
calculate_next_review(quality, difficulty, current_ease_factor, current_interval, current_repetitions, current_mastery, clock) ==
    IF ~(0 <= quality /\ quality <= 5) THEN [error |-> "InvalidInput"]
    ELSE
    LET ease1 == EaseAfter(quality, current_ease_factor)
        correct == quality >= 3
        base_interval ==
            IF correct
            THEN IF current_repetitions = 0 THEN 1
                 ELSE IF current_repetitions = 1 THEN 6
                 ELSE Round(current_interval * ease1, 100)
            ELSE 1
        new_repetitions == IF correct THEN current_repetitions + 1 ELSE 0
        new_ease_factor ==
            IF correct THEN ease1 ELSE FailureEase(ease1, current_ease_factor)
        difficulty_factor == 1000 - difficulty * 3
        new_interval == Max(1, Round(base_interval * difficulty_factor, 1000))
    IN  [error |-> "OK",
         ease_factor |-> new_ease_factor,
         interval_days |-> new_interval,
         repetitions |-> new_repetitions,
         next_review_at |-> clock + new_interval,
         suggested_mastery |->
             _calculate_suggested_mastery(quality, new_repetitions, current_mastery)]

-----------------------------------------------------------------------------
(* The store: schema.py.  Each table is the set of its rows.  The          *)
(* description, tags, notes, reasoning and created_at columns are written  *)
(* once and read by no operation modelled here; they are left out.         *)

\* connection.py: every connection runs PRAGMA foreign_keys = ON, so the
\* ON DELETE CASCADE clauses of edges and review_history are in force.
\* Mutant: the pragma is not issued, SQLite's default leaves the foreign keys
\* unenforced.
foreign_keys_Off == FALSE

foreign_keys == TRUE

HasNode(ns, id) == \E n \in ns : n.id = id

NodeById(ns, id) == CHOOSE n \in ns : n.id = id

\* NODES_TABLE: the row INSERT creates from the given columns and the
\* column defaults.
NewNodeRow(node_id, node_data, clock) ==
    [id |-> node_id,
     concept |-> node_data.concept,
     domain |-> node_data.domain,
     mastery_level |-> 0,
     mastery_recall |-> 0,
     mastery_application |-> 0,
     mastery_explanation |-> 0,
     difficulty |-> node_data.difficulty,
     ease_factor |-> 250,
     interval_days |-> 0,
     repetitions |-> 0,
     last_reviewed_at |-> None,
     next_review_at |-> None,
     review_count |-> 0,
     misconceptions |-> << >>,
     updated_at |-> clock]

EdgeKey(e) == << e.source_id, e.target_id, e.relation_type >>

HasEdge(es, source_id, target_id, relation_type) ==
    \E e \in es : EdgeKey(e) = << source_id, target_id, relation_type >>

\* DELETE FROM nodes WHERE id = ?, with the cascades of EDGES_TABLE and
\* REVIEW_HISTORY_TABLE.
\* Mutant: only the source_id foreign key cascades.
EdgesAfterNodeDelete_SourceOnly(es, node_id) ==
    {e \in es : e.source_id # node_id}

EdgesAfterNodeDelete(es, node_id) ==
    IF foreign_keys
    THEN {e \in es : e.source_id # node_id /\ e.target_id # node_id}
    ELSE es

\* A variant whose cascade is not restricted to the deleted node's rows.
HistoryAfterNodeDelete_All(hs, node_id) ==
    IF foreign_keys THEN {} ELSE hs

HistoryAfterNodeDelete(hs, node_id) ==
    IF foreign_keys THEN {h \in hs : h.node_id # node_id} ELSE hs

-----------------------------------------------------------------------------
(* Input models: models/node.py, models/edge.py.  Construction validates   *)
(* the Field(ge=, le=) ranges.                                             *)

NodeCreateValid(node_data) ==
    0 <= node_data.difficulty /\ node_data.difficulty <= 100

InUnit(o) == IsNone(o) \/ (0 <= Get(o) /\ Get(o) <= 100)

\* Mutant: the Field(ge=, le=) constraints are missing.
NodeUpdateValid_Unchecked(update_data) == TRUE

NodeUpdateValid(update_data) ==
    /\ InUnit(update_data.difficulty)
    /\ InUnit(update_data.mastery_level)
    /\ InUnit(update_data.mastery_recall)
    /\ InUnit(update_data.mastery_application)
    /\ InUnit(update_data.mastery_explanation)
    /\ (IsNone(update_data.quality)
        \/ (0 <= Get(update_data.quality) /\ Get(update_data.quality) <= 5))

EdgeCreateValid(edge_data) ==
    /\ edge_data.relation_type \in RelationType
    /\ 0 <= edge_data.strength /\ edge_data.strength <= 100

-----------------------------------------------------------------------------
(* GraphService._would_create_cycle: breadth-first search from target_id   *)
(* over the rows SELECT source_id FROM edges WHERE target_id = current AND *)
(* relation_type = 'prerequisite'; true as soon as source_id is dequeued.  *)

\* The rows the SELECT of one iteration returns.
CycleSearchRows(es, current) ==
    {e.source_id : e \in {x \in es : x.target_id = current
                                     /\ x.relation_type = PREREQUISITE}}

RECURSIVE CycleSearch(_, _, _, _)
CycleSearch(es, source_id, frontier, visited) ==
    IF frontier = {} THEN FALSE
    ELSE IF source_id \in frontier THEN TRUE
    ELSE LET seen == visited \cup frontier
             next == UNION {CycleSearchRows(es, c) : c \in frontier}
         IN  CycleSearch(es, source_id, next \ seen, seen)

_would_create_cycle(es, source_id, target_id) ==
    CycleSearch(es, source_id, {target_id}, {})

-----------------------------------------------------------------------------
(* Results.  result records the last call: op, arg, the error kind ("OK"   *)
(* when the call returned) and the returned value.                         *)

Fail(op, arg, kind) ==
    /\ result' = [op |-> op, arg |-> arg, error |-> kind, ret |-> None]
    /\ UNCHANGED <<nodes, edges, review_history, history_seq, now>>

-----------------------------------------------------------------------------
(* GraphService.add_node *)

add_node(node_data) ==
    LET node_id == IF IsNone(node_data.node_id)
                   THEN _generate_node_id(node_data.concept)
                   ELSE Get(node_data.node_id)
    IN  IF ~NodeCreateValid(node_data) THEN Fail("add_node", node_data, "InvalidInput")
        ELSE IF HasNode(nodes, node_id) THEN Fail("add_node", node_data, "DuplicateID")
        ELSE LET row == NewNodeRow(node_id, node_data, now)
             IN  /\ nodes' = nodes \cup {row}
                 /\ result' = [op |-> "add_node", arg |-> node_data,
                               error |-> "OK", ret |-> Some(row)]
                 /\ UNCHANGED <<edges, review_history, history_seq, now>>

-----------------------------------------------------------------------------
(* GraphService.delete_node *)

delete_node(node_id) ==
    LET existed == HasNode(nodes, node_id)
    IN  /\ nodes' = {n \in nodes : n.id # node_id}
        /\ edges' = IF existed THEN EdgesAfterNodeDelete(edges, node_id) ELSE edges
        /\ review_history' =
               IF existed THEN HistoryAfterNodeDelete(review_history, node_id)
               ELSE review_history
        /\ result' = [op |-> "delete_node", arg |-> node_id,
                      error |-> "OK", ret |-> Some(existed)]
        /\ UNCHANGED <<history_seq, now>>

-----------------------------------------------------------------------------
(* GraphService.add_edge *)

\* The outcome of the checks that precede the INSERT, in the order of the
\* code: source exists, target exists, cycle (PREREQUISITE only), duplicate.
AddEdgeCheck(ns, es, edge_data) ==
    IF ~HasNode(ns, edge_data.source_id) THEN "NotFound"
    ELSE IF ~HasNode(ns, edge_data.target_id) THEN "NotFound"
    ELSE IF /\ edge_data.relation_type = PREREQUISITE
            /\ _would_create_cycle(es, edge_data.source_id, edge_data.target_id)
         THEN "CycleDetected"
    ELSE IF HasEdge(es, edge_data.source_id, edge_data.target_id, edge_data.relation_type)
         THEN "DuplicateEdge"
    ELSE "OK"

\* INSERT INTO edges: the primary key and the two foreign keys of
\* EDGES_TABLE can reject the row.
EdgeInsertAllowed(ns, es, edge_data) ==
    /\ ~HasEdge(es, edge_data.source_id, edge_data.target_id, edge_data.relation_type)
    /\ foreign_keys => (HasNode(ns, edge_data.source_id) /\ HasNode(ns, edge_data.target_id))

add_edge(edge_data) ==
    LET check == AddEdgeCheck(nodes, edges, edge_data)
    IN  IF ~EdgeCreateValid(edge_data) THEN Fail("add_edge", edge_data, "InvalidInput")
        ELSE IF check # "OK" THEN Fail("add_edge", edge_data, check)
        ELSE IF ~EdgeInsertAllowed(nodes, edges, edge_data)
             THEN Fail("add_edge", edge_data, "StoreFailure")
        ELSE /\ edges' = edges \cup {edge_data}
             /\ result' = [op |-> "add_edge", arg |-> edge_data,
                           error |-> "OK", ret |-> Some(edge_data)]
             /\ UNCHANGED <<nodes, review_history, history_seq, now>>

-----------------------------------------------------------------------------
(* GraphService.delete_edge *)

delete_edge(key) ==
    LET existed == HasEdge(edges, key[1], key[2], key[3])
    IN  /\ edges' = {e \in edges : EdgeKey(e) # key}
        /\ result' = [op |-> "delete_edge", arg |-> key,
                      error |-> "OK", ret |-> Some(existed)]
        /\ UNCHANGED <<nodes, review_history, history_seq, now>>

-----------------------------------------------------------------------------
(* GraphService.update_node *)

\* "x if x is not None else current"
OrElse(o, current) == IF IsNone(o) THEN current ELSE Get(o)

\* "if update_data.misconception_detected:" is a truth test: None and the
\* empty string both skip the branch.
Truthy(o) == ~IsNone(o) /\ Get(o) # ""

InSeq(x, sq) == \E i \in 1..Len(sq) : sq[i] = x

\* A variant that appends without looking for the entry.
MisconceptionsAfter_NoDedup(current, detected) ==
    IF Truthy(detected) THEN Append(current, Get(detected)) ELSE current

\* The misconceptions column after the update.
MisconceptionsAfter(current, detected) ==
    IF Truthy(detected) /\ ~InSeq(Get(detected), current)
    THEN Append(current, Get(detected))
    ELSE current

DimensionsPresent(update_data) ==
    \/ ~IsNone(update_data.mastery_recall)
    \/ ~IsNone(update_data.mastery_application)
    \/ ~IsNone(update_data.mastery_explanation)

\* "if updates:" - some key was put into the updates dict.
HasUpdates(update_data) ==
    \/ ~IsNone(update_data.concept)
    \/ ~IsNone(update_data.domain)
    \/ ~IsNone(update_data.difficulty)
    \/ DimensionsPresent(update_data)
    \/ ~IsNone(update_data.mastery_level)
    \/ ~IsNone(update_data.quality)
    \/ Truthy(update_data.misconception_detected)

\* A variant that recomputes the overall mastery on every update, without the
\* "if any([...])" test on the three dimensions.
PatchedMastery_AlwaysDerived(current_node, update_data) ==
    OrElse(update_data.mastery_level,
           calculate_overall_mastery(
               OrElse(update_data.mastery_recall, current_node.mastery_recall),
               OrElse(update_data.mastery_application, current_node.mastery_application),
               OrElse(update_data.mastery_explanation, current_node.mastery_explanation)))

\* updates["mastery_level"] before the quality branch, or the current value
\* when the key is absent.
PatchedMastery(current_node, update_data) ==
    LET mastery_recall == OrElse(update_data.mastery_recall, current_node.mastery_recall)
        mastery_application ==
            OrElse(update_data.mastery_application, current_node.mastery_application)
        mastery_explanation ==
            OrElse(update_data.mastery_explanation, current_node.mastery_explanation)
        derived == IF DimensionsPresent(update_data)
                   THEN calculate_overall_mastery(mastery_recall, mastery_application,
                                                  mastery_explanation)
                   ELSE current_node.mastery_level
    IN  OrElse(update_data.mastery_level, derived)

\* The scheduler call of the quality branch.
ReviewOf(current_node, update_data, clock) ==
    calculate_next_review(Get(update_data.quality), current_node.difficulty,
                          current_node.ease_factor, current_node.interval_days,
                          current_node.repetitions, current_node.mastery_level, clock)

\* A variant in which a mastery_level given in the patch is written after the
\* scheduler's suggestion and so wins over it.
MasteryAfter_PatchWins(current_node, update_data, clock) ==
    LET patched == PatchedMastery(current_node, update_data)
    IN  IF IsNone(update_data.quality) \/ ~IsNone(update_data.mastery_level) THEN patched
        ELSE OrElse(ReviewOf(current_node, update_data, clock).suggested_mastery, patched)

\* mastery_after / the mastery_level written by the UPDATE.
MasteryAfter(current_node, update_data, clock) ==
    LET patched == PatchedMastery(current_node, update_data)
    IN  IF IsNone(update_data.quality) THEN patched
        ELSE OrElse(ReviewOf(current_node, update_data, clock).suggested_mastery, patched)

\* The node row after UPDATE nodes SET ... WHERE id = ?.
UpdatedRow(current_node, update_data, clock) ==
    LET reviewed == ~IsNone(update_data.quality)
        sm2_result == ReviewOf(current_node, update_data, clock)
    IN  [id |-> current_node.id,
         concept |-> OrElse(update_data.concept, current_node.concept),
         domain |-> IF IsNone(update_data.domain) THEN current_node.domain
                    ELSE update_data.domain,
         mastery_level |-> MasteryAfter(current_node, update_data, clock),
         mastery_recall |-> OrElse(update_data.mastery_recall, current_node.mastery_recall),
         mastery_application |->
             OrElse(update_data.mastery_application, current_node.mastery_application),
         mastery_explanation |->
             OrElse(update_data.mastery_explanation, current_node.mastery_explanation),
         difficulty |-> OrElse(update_data.difficulty, current_node.difficulty),
         ease_factor |-> IF reviewed THEN sm2_result.ease_factor
                         ELSE current_node.ease_factor,
         interval_days |-> IF reviewed THEN sm2_result.interval_days
                           ELSE current_node.interval_days,
         repetitions |-> IF reviewed THEN sm2_result.repetitions
                         ELSE current_node.repetitions,
         last_reviewed_at |-> IF reviewed THEN Some(clock)
                              ELSE current_node.last_reviewed_at,
         next_review_at |-> IF reviewed THEN Some(sm2_result.next_review_at)
                            ELSE current_node.next_review_at,
         review_count |-> IF reviewed THEN current_node.review_count + 1
                          ELSE current_node.review_count,
         misconceptions |->
             MisconceptionsAfter(current_node.misconceptions,
                                 update_data.misconception_detected),
         updated_at |-> IF HasUpdates(update_data) THEN clock
                        ELSE current_node.updated_at]

\* A variant that records as mastery_after the value held before the
\* scheduler's suggestion is applied.
HistoryRow_BeforeSuggestion(row_id, current_node, update_data, clock) ==
    [id |-> row_id,
     node_id |-> current_node.id,
     reviewed_at |-> clock,
     quality |-> Get(update_data.quality),
     mastery_before |-> current_node.mastery_level,
     mastery_after |-> PatchedMastery(current_node, update_data),
     misconception_detected |-> update_data.misconception_detected]

\* INSERT INTO review_history: the row of one review.
HistoryRow(row_id, current_node, update_data, clock) ==
    [id |-> row_id,
     node_id |-> current_node.id,
     reviewed_at |-> clock,
     quality |-> Get(update_data.quality),
     mastery_before |-> current_node.mastery_level,
     mastery_after |-> MasteryAfter(current_node, update_data, clock),
     misconception_detected |-> update_data.misconception_detected]

update_node(node_id, update_data) ==
    LET arg == [node_id |-> node_id, update_data |-> update_data]
    IN  IF ~NodeUpdateValid(update_data) THEN Fail("update_node", arg, "InvalidInput")
        ELSE IF ~HasNode(nodes, node_id) THEN Fail("update_node", arg, "NotFound")
        ELSE IF /\ ~IsNone(update_data.quality)
                /\ ReviewOf(NodeById(nodes, node_id), update_data, now).error # "OK"
             THEN Fail("update_node", arg, "InvalidInput")
        ELSE
        LET current_node == NodeById(nodes, node_id)
            reviewed == ~IsNone(update_data.quality)
            row == UpdatedRow(current_node, update_data, now)
        IN  /\ nodes' = (nodes \ {current_node}) \cup {row}
            /\ review_history' =
                   IF reviewed
                   THEN review_history
                        \cup {HistoryRow(history_seq + 1, current_node, update_data, now)}
                   ELSE review_history
            /\ history_seq' = IF reviewed THEN history_seq + 1 ELSE history_seq
            /\ result' = [op |-> "update_node", arg |-> arg,
                          error |-> "OK", ret |-> Some(row)]
            /\ UNCHANGED <<edges, now>>

-----------------------------------------------------------------------------
(* GraphService.get_edges: each filter that is given narrows the result *)

get_edges(es, source_id, target_id, relation_type) ==
    {e \in es :
        /\ Truthy(source_id) => e.source_id = Get(source_id)
        /\ Truthy(target_id) => e.target_id = Get(target_id)
        /\ ~IsNone(relation_type) => e.relation_type = Get(relation_type)}

-----------------------------------------------------------------------------
(* Inputs of the graph specification *)

IdA == << "a" >>

IdB == << "b" >>

IdC == << "c" >>

NodeIds == {IdA, IdB, IdC}

NodeCreate(concept, domain, difficulty, node_id) ==
    [concept |-> concept, domain |-> domain, difficulty |-> difficulty, node_id |-> node_id]

\* Two concepts that normalise to "a", one each for "b" and "c", and an
\* explicit id that collides with a derived one.
GraphCreates ==
    {NodeCreate(<< "A" >>, None, 50, None),
     NodeCreate(<< "a", "!" >>, None, 50, None),
     NodeCreate(<< "B", " ", "!" >>, None, 50, None),
     NodeCreate(<< "?", "c", "_" >>, None, 50, None),
     NodeCreate(<< "A" >>, None, 50, Some(IdA))}

EdgeCreate(source_id, target_id, relation_type, strength) ==
    [source_id |-> source_id, target_id |-> target_id,
     relation_type |-> relation_type, strength |-> strength]

\* Every PREREQUISITE edge between two different nodes, one PREREQUISITE
\* self-loop, and RELATED_TO edges that form a self-loop and a two-node
\* cycle and that double a PREREQUISITE pair.
EdgeKeys ==
    {k \in NodeIds \X NodeIds \X {PREREQUISITE} : k[1] # k[2]}
    \cup {<< IdA, IdA, PREREQUISITE >>,
          << IdA, IdA, RELATED_TO >>, << IdA, IdB, RELATED_TO >>,
          << IdB, IdA, RELATED_TO >>}

GraphEdgeCreates ==
    {EdgeCreate(k[1], k[2], k[3], 100) : k \in EdgeKeys}

EmptyPatch ==
    [concept |-> None, domain |-> None, difficulty |-> None,
     mastery_level |-> None, mastery_recall |-> None,
     mastery_application |-> None, mastery_explanation |-> None,
     quality |-> None, misconception_detected |-> None]

GraphPatches ==
    {[EmptyPatch EXCEPT !.quality = Some(4)]}

-----------------------------------------------------------------------------
(* The graph specification: the five mutating operations on an empty store *)

NoCall == [op |-> "none", arg |-> None, error |-> "OK", ret |-> None]

Init ==
    /\ nodes = {}
    /\ edges = {}
    /\ review_history = {}
    /\ history_seq = 0
    /\ now = 0
    /\ result = NoCall

AddNode == \E node_data \in GraphCreates : add_node(node_data)

UpdateNode ==
    \E node_id \in {IdA}, update_data \in GraphPatches :
        /\ ~IsNone(update_data.quality) => history_seq < MaxReviews
        /\ update_node(node_id, update_data)

DeleteNode == \E node_id \in NodeIds : delete_node(node_id)

AddEdge == \E edge_data \in GraphEdgeCreates : add_edge(edge_data)

DeleteEdge == \E key \in EdgeKeys : delete_edge(key)

Next ==
    \/ AddNode
    \/ UpdateNode
    \/ DeleteNode
    \/ AddEdge
    \/ DeleteEdge

Spec == Init /\ [][Next]_vars

-----------------------------------------------------------------------------
(* Graph notions used by the properties, defined on the edge set alone *)

\* The targets of the PREREQUISITE edges that leave a node of the set.
PrereqSuccessors(es, from) ==
    {e.target_id : e \in {x \in es : x.relation_type = PREREQUISITE
                                     /\ x.source_id \in from}}

RECURSIVE PrereqClosure(_, _)
PrereqClosure(es, reached) ==
    LET more == reached \cup PrereqSuccessors(es, reached)
    IN  IF more = reached THEN reached ELSE PrereqClosure(es, more)

\* A directed path of one or more PREREQUISITE edges leads from x to y.
PrereqPath(es, x, y) == y \in PrereqClosure(es, PrereqSuccessors(es, {x}))

Acyclic(es) == \A e \in es : ~PrereqPath(es, e.source_id, e.source_id)

StoreUnchanged == UNCHANGED <<nodes, edges, review_history>>

-----------------------------------------------------------------------------
(* Properties of the graph specification *)

\* C1: in every reachable state the PREREQUISITE edges contain no directed
\* cycle (no self-loop, no two-node cycle, no longer cycle).
C1_NoPrerequisiteCycle == Acyclic(edges)

\* C2: on an acyclic graph, add_edge(A, B, PREREQUISITE) with existing A and
\* B and a PREREQUISITE path B -> ... -> A fails with CycleDetected and
\* leaves nodes, edges and review history as they were.
C2_CycleLaw ==
    [][(/\ result'.op = "add_edge"
        /\ result'.arg.relation_type = PREREQUISITE
        /\ Acyclic(edges)
        /\ HasNode(nodes, result'.arg.source_id)
        /\ HasNode(nodes, result'.arg.target_id)
        /\ PrereqPath(edges, result'.arg.target_id, result'.arg.source_id))
       => (result'.error = "CycleDetected" /\ StoreUnchanged)]_vars

\* C3: add_edge inserts the edge and returns it whenever both nodes exist,
\* the triple is not stored yet, and the type is not PREREQUISITE or the new
\* edge would not close a directed cycle of PREREQUISITE edges.
C3_AddEdgeInserts ==
    [][(/\ result'.op = "add_edge"
        /\ HasNode(nodes, result'.arg.source_id)
        /\ HasNode(nodes, result'.arg.target_id)
        /\ ~HasEdge(edges, result'.arg.source_id, result'.arg.target_id,
                    result'.arg.relation_type)
        /\ \/ result'.arg.relation_type # PREREQUISITE
           \/ /\ result'.arg.source_id # result'.arg.target_id
              /\ ~PrereqPath(edges, result'.arg.target_id, result'.arg.source_id))
       => (/\ result'.error = "OK"
           /\ result'.ret = Some(result'.arg)
           /\ edges' = edges \cup {result'.arg}
           /\ result'.arg \notin edges)]_vars

\* C4: every stored edge has a source_id and a target_id that name existing
\* nodes; add_edge with a missing source or target fails with NotFound and
\* inserts nothing; no delete_node leaves an edge at a removed node.
C4_ReferentialIntegrity ==
    /\ [](\A e \in edges : HasNode(nodes, e.source_id) /\ HasNode(nodes, e.target_id))
    /\ [][(/\ result'.op = "add_edge"
           /\ \/ ~HasNode(nodes, result'.arg.source_id)
              \/ ~HasNode(nodes, result'.arg.target_id))
          => (result'.error = "NotFound" /\ StoreUnchanged)]_vars

\* C4 witness: one of three nodes has just been deleted and edges between
\* the two that remain are stored.
C4_Witness ==
    /\ result.op = "delete_node"
    /\ result.ret = Some(TRUE)
    /\ Cardinality(nodes) = 2
    /\ edges # {}

\* C5: delete_node(id) returns true exactly when the node existed; afterwards
\* no node, edge or review-history row references id and get_edges by source
\* or by target is empty; everything else is unchanged; when the node did not
\* exist nothing changes.
C5_DeleteCascade ==
    [][result'.op = "delete_node"
       => LET id == result'.arg
          IN  /\ result'.error = "OK"
              /\ result'.ret = Some(HasNode(nodes, id))
              /\ ~HasNode(nodes', id)
              /\ get_edges(edges', Some(id), None, None) = {}
              /\ get_edges(edges', None, Some(id), None) = {}
              /\ \A h \in review_history' : h.node_id # id
              /\ nodes' = {n \in nodes : n.id # id}
              /\ edges' = {e \in edges : e.source_id # id /\ e.target_id # id}
              /\ review_history' = {h \in review_history : h.node_id # id}
              /\ ~HasNode(nodes, id) => StoreUnchanged]_vars

\* C5 witness: the reviewed node was deleted, its history went with it, and
\* nodes and edges of the others are still there.
C5_Witness ==
    /\ result.op = "delete_node"
    /\ result.arg = IdA
    /\ result.ret = Some(TRUE)
    /\ history_seq > 0
    /\ review_history = {}
    /\ edges # {}

\* C6: add_edge fails with DuplicateEdge whenever the (source, target,
\* relation_type) triple is already stored, for every relation type, and
\* leaves the edge set unchanged; no state holds two edges with one triple.
C6_DuplicateEdge ==
    /\ [](\A e1 \in edges, e2 \in edges : EdgeKey(e1) = EdgeKey(e2) => e1 = e2)
    /\ [][(/\ result'.op = "add_edge"
           /\ HasEdge(edges, result'.arg.source_id, result'.arg.target_id,
                      result'.arg.relation_type))
          => (result'.error = "DuplicateEdge" /\ edges' = edges)]_vars

\* The node ids the concept names of the inputs normalise to.
C7_ExpectedId(node_data) ==
    IF ~IsNone(node_data.node_id) THEN Get(node_data.node_id)
    ELSE CASE node_data.concept = << "A" >> -> IdA
           [] node_data.concept = << "a", "!" >> -> IdA
           [] node_data.concept = << "B", " ", "!" >> -> IdB
           [] node_data.concept = << "?", "c", "_" >> -> IdC

-----------------------------------------------------------------------------
(* The scheduler specification: one call of calculate_next_review on an    *)
(* input drawn from bounded sets, valid and invalid.                       *)

Qualities == -1..6

Difficulties == {0, 50, 100}

EaseFactors == {100, 125, 130, 135, 170, 250, 260, 300}

Intervals == 0..MaxInterval

Repetitions == 0..MaxRepetitions

Masteries == {0, 40, 90}

SM2Inputs ==
    [quality : Qualities, difficulty : Difficulties,
     current_ease_factor : EaseFactors, current_interval : Intervals,
     current_repetitions : Repetitions, current_mastery : Masteries]

\* A call that has been made and has not returned yet.
Pending(in) == [op |-> "call", arg |-> in, error |-> "OK", ret |-> None]

SchedulerInit ==
    /\ nodes = {}
    /\ edges = {}
    /\ review_history = {}
    /\ history_seq = 0
    /\ now = 0
    /\ result \in {Pending(in) : in \in SM2Inputs}

Schedule ==
    /\ result.op = "call"
    /\ LET in == result.arg
           sm2_result ==
               calculate_next_review(in.quality, in.difficulty, in.current_ease_factor,
                                     in.current_interval, in.current_repetitions,
                                     in.current_mastery, now)
       IN  result' = [op |-> "calculate_next_review", arg |-> in,
                      error |-> sm2_result.error,
                      ret |-> IF sm2_result.error = "OK" THEN Some(sm2_result)
                              ELSE None]
    /\ UNCHANGED <<nodes, edges, review_history, history_seq, now>>

SchedulerNext == Schedule

SchedulerSpec == SchedulerInit /\ [][SchedulerNext]_vars

-----------------------------------------------------------------------------
(* Properties of the scheduler specification *)

Scheduled == result.op = "calculate_next_review"

\* C8 as stated: for every integer quality in 0..5 and every value of the
\* other arguments, any current_ease_factor included, the result has
\* ease_factor >= 1.3 and interval_days >= 1; a quality outside 0..5 fails
\* with InvalidInput.
C8_Original ==
    Scheduled =>
        IF result.arg.quality \in 0..5
        THEN /\ result.error = "OK"
             /\ Get(result.ret).ease_factor >= 130
             /\ Get(result.ret).interval_days >= 1
        ELSE result.error = "InvalidInput"

\* C8 as amended: the same for every current_ease_factor that is itself at
\* least 1.3; interval_days >= 1 and the InvalidInput failure hold for every
\* current_ease_factor.
C8_EaseAndIntervalFloor ==
    Scheduled =>
        IF result.arg.quality \in 0..5
        THEN /\ result.error = "OK"
             /\ result.arg.current_ease_factor >= 130
                    => Get(result.ret).ease_factor >= 130
             /\ Get(result.ret).interval_days >= 1
        ELSE result.error = "InvalidInput"

\* C8 witness: a blackout (quality 0) at ease factor 1.35 and the hardest
\* difficulty ends on the two floors.
C8_Witness ==
    /\ Scheduled
    /\ result.arg.quality = 0
    /\ result.arg.current_ease_factor = 135
    /\ result.arg.difficulty = 100
    /\ result.error = "OK"
    /\ Get(result.ret).ease_factor = 130
    /\ Get(result.ret).interval_days = 1

\* r is n / d rounded to a nearest integer.
C10_Rounds(r, n, d) == 2 * Abs(n - r * d) <= d

C10_Range == 0..(4 * (MaxInterval + 1))

\* C10: with quality >= 3 repetitions grows by one and the base interval is
\* 1, 6 or round(current_interval x new ease) for 0, 1 or more previous
\* repetitions; with quality < 3 repetitions is 0, the base interval is 1 and
\* the ease factor is not above the current one; the base interval times
\* (1 - 0.3 x difficulty) is rounded and raised to at least 1.  The scenario
\* quality 5, difficulty 0.5, ease 2.5, interval 0, repetitions 0 gives
\* repetitions 1, interval_days 1, ease_factor 2.6.
C10_Transition ==
    (Scheduled /\ result.error = "OK") =>
        LET in == result.arg
            out == Get(result.ret)
        IN  /\ \E base \in C10_Range, scaled \in C10_Range :
                /\ IF in.quality >= 3
                   THEN /\ out.repetitions = in.current_repetitions + 1
                        /\ in.current_repetitions = 0 => base = 1
                        /\ in.current_repetitions = 1 => base = 6
                        /\ in.current_repetitions > 1 =>
                               C10_Rounds(base, in.current_interval * out.ease_factor, 100)
                   ELSE /\ out.repetitions = 0
                        /\ base = 1
                        /\ out.ease_factor <= in.current_ease_factor
                /\ C10_Rounds(scaled, base * (1000 - 3 * in.difficulty), 1000)
                /\ out.interval_days = Max(1, scaled)
            /\ (/\ in.quality = 5 /\ in.difficulty = 50 /\ in.current_ease_factor = 250
                /\ in.current_interval = 0 /\ in.current_repetitions = 0)
               => (/\ out.repetitions = 1 /\ out.interval_days = 1
                   /\ out.ease_factor = 260)

\* C10 witness: the failure scenario, quality 2 after three repetitions at
\* interval 10 and ease 2.5.
C10_Witness ==
    /\ Scheduled
    /\ result.arg.quality = 2
    /\ result.arg.current_repetitions = 3
    /\ result.arg.current_interval = 10
    /\ result.arg.current_ease_factor = 250
    /\ result.error = "OK"
    /\ Get(result.ret).repetitions = 0
    /\ Get(result.ret).interval_days = 1
    /\ Get(result.ret).ease_factor <= 250

-----------------------------------------------------------------------------
(* The review specification: add_node and update_node with field patches   *)
(* and quality ratings, valid and out of range, on two node ids.           *)

ReviewCreates ==
    {NodeCreate(<< "A" >>, None, 50, None),
     NodeCreate(<< "a", "!" >>, None, 50, None),
     NodeCreate(<< "B", " ", "!" >>, None, 100, None),
     NodeCreate(<< "A" >>, None, 150, None)}

ReviewPatches ==
    {EmptyPatch,
     [EmptyPatch EXCEPT !.quality = Some(0)],
     [EmptyPatch EXCEPT !.quality = Some(5)],
     [EmptyPatch EXCEPT !.quality = Some(6)],
     [EmptyPatch EXCEPT !.quality = Some(3), !.mastery_application = Some(50),
                        !.misconception_detected = Some("m1")],
     [EmptyPatch EXCEPT !.mastery_level = Some(90)],
     [EmptyPatch EXCEPT !.mastery_level = Some(150)],
     [EmptyPatch EXCEPT !.mastery_recall = Some(100)],
     [EmptyPatch EXCEPT !.difficulty = Some(100)]}

ReviewAddNode == \E node_data \in ReviewCreates : add_node(node_data)

ReviewUpdateNode ==
    \E node_id \in {IdA}, update_data \in ReviewPatches :
        /\ ~IsNone(update_data.quality) => history_seq < MaxHistory
        /\ update_node(node_id, update_data)

ReviewNext ==
    \/ ReviewAddNode
    \/ ReviewUpdateNode

ReviewSpec == Init /\ [][ReviewNext]_vars

-----------------------------------------------------------------------------
(* Properties of the review specification *)

NodeIdsOf(ns) == {n.id : n \in ns}

C9_InRange(x) == 0 <= x /\ x <= 100

\* C9: in every state reached through add_node and update_node every node
\* has a unique id that never changes, difficulty and the four mastery
\* fields within [0,1], ease_factor >= 1.3, interval_days >= 0 and
\* repetitions >= 0.
C9_NodeInvariant ==
    /\ [](\A n \in nodes :
            /\ \A m \in nodes : m.id = n.id => m = n
            /\ C9_InRange(n.difficulty)
            /\ C9_InRange(n.mastery_level)
            /\ C9_InRange(n.mastery_recall)
            /\ C9_InRange(n.mastery_application)
            /\ C9_InRange(n.mastery_explanation)
            /\ n.ease_factor >= 130
            /\ n.interval_days >= 0
            /\ n.repetitions >= 0)
    /\ [][/\ NodeIdsOf(nodes) \subseteq NodeIdsOf(nodes')
          /\ result'.op = "update_node" => NodeIdsOf(nodes') = NodeIdsOf(nodes)]_vars

\* C9 witness: next to another node, a node that was patched and reviewed
\* twice sits on the ease-factor floor.
C9_Witness ==
    /\ Cardinality(nodes) = 2
    /\ \E n \in nodes :
        /\ n.review_count = 2
        /\ n.ease_factor = 130
        /\ n.difficulty = 100
        /\ n.mastery_recall = 100

-----------------------------------------------------------------------------
(* The patch specification: update_node on one node with the empty patch,  *)
(* direct and dimensional mastery patches, and reviews with and without a  *)
(* mastery patch, next to a second node that is never patched, while days  *)
(* pass.                                                                   *)

PatchCreates ==
    {NodeCreate(<< "A" >>, None, 50, None),
     NodeCreate(<< "B" >>, None, 100, None)}

PatchPatches ==
    {EmptyPatch,
     [EmptyPatch EXCEPT !.quality = Some(0)],
     [EmptyPatch EXCEPT !.quality = Some(0), !.mastery_level = Some(90)],
     [EmptyPatch EXCEPT !.quality = Some(5)],
     [EmptyPatch EXCEPT !.quality = Some(3), !.mastery_application = Some(50),
                        !.misconception_detected = Some("m1")],
     [EmptyPatch EXCEPT !.mastery_level = Some(90), !.mastery_recall = Some(100)],
     [EmptyPatch EXCEPT !.mastery_recall = Some(100)]}

PatchAddNode == \E node_data \in PatchCreates : add_node(node_data)

PatchUpdateNode ==
    \E node_id \in {IdA}, update_data \in PatchPatches :
        /\ ~IsNone(update_data.quality) => history_seq < MaxPatchReviews
        /\ update_node(node_id, update_data)

\* A day passes: datetime.now() moves on between two calls.
PatchTick ==
    /\ now < MaxPatchClock
    /\ now' = now + 1
    /\ result' = NoCall
    /\ UNCHANGED <<nodes, edges, review_history, history_seq>>

PatchNext ==
    \/ PatchAddNode
    \/ PatchUpdateNode
    \/ PatchTick

PatchSpec == Init /\ [][PatchNext]_vars

-----------------------------------------------------------------------------
(* Properties of the patch specification *)

\* The call recorded by this step is an update_node of an existing node.
UpdatesExisting ==
    /\ result'.op = "update_node"
    /\ HasNode(nodes, result'.arg.node_id)

\* A node row without its updated_at column.
C11_Stored(n) == [f \in (DOMAIN n) \ {"updated_at"} |-> n[f]]

\* C11: update_node of an existing node with the empty patch succeeds and
\* leaves every stored field of the node other than updated_at as it was,
\* adds no review history row and leaves every other node and every edge
\* unchanged; so applying it any number of times equals applying it once.
C11_EmptyPatch ==
    [][(UpdatesExisting /\ result'.arg.update_data = EmptyPatch)
       => LET node_id == result'.arg.node_id
          IN  /\ result'.error = "OK"
              /\ HasNode(nodes', node_id)
              /\ C11_Stored(NodeById(nodes', node_id)) = C11_Stored(NodeById(nodes, node_id))
              /\ C11_Stored(Get(result'.ret)) = C11_Stored(NodeById(nodes, node_id))
              /\ {n \in nodes' : n.id # node_id} = {n \in nodes : n.id # node_id}
              /\ review_history' = review_history
              /\ history_seq' = history_seq
              /\ edges' = edges]_vars

\* C11 witness: the empty patch was applied to a node that had been reviewed
\* and patched before, next to another node.
C11_Witness ==
    /\ result.op = "update_node"
    /\ result.error = "OK"
    /\ result.arg.update_data = EmptyPatch
    /\ Cardinality(nodes) = 2
    /\ Get(result.ret).review_count = 2
    /\ Get(result.ret).mastery_level = 90
    /\ Get(result.ret).mastery_recall = 100
    /\ Get(result.ret).misconceptions = << "m1" >>

\* The Scheduler's answer to the quality of the recorded call, computed from
\* the node as it was before the call.
SchedulerAnswer(current_node, update_data) ==
    calculate_next_review(Get(update_data.quality), current_node.difficulty,
                          current_node.ease_factor, current_node.interval_days,
                          current_node.repetitions, current_node.mastery_level, now)

\* C12: the mastery_level stored by a successful update_node is decided in a
\* fixed order: the Scheduler's suggested mastery when quality is present
\* and a suggestion was returned; otherwise the patch's mastery_level when
\* present; otherwise 0.3 recall + 0.4 application + 0.3 explanation over the
\* merged dimensions when a dimension is present; otherwise the old value.
C12_MasteryOrder ==
    [][(UpdatesExisting /\ result'.error = "OK")
       => LET current_node == NodeById(nodes, result'.arg.node_id)
              update_data == result'.arg.update_data
              stored == NodeById(nodes', result'.arg.node_id).mastery_level
              recall == IF IsNone(update_data.mastery_recall)
                        THEN current_node.mastery_recall
                        ELSE Get(update_data.mastery_recall)
              application == IF IsNone(update_data.mastery_application)
                             THEN current_node.mastery_application
                             ELSE Get(update_data.mastery_application)
              explanation == IF IsNone(update_data.mastery_explanation)
                             THEN current_node.mastery_explanation
                             ELSE Get(update_data.mastery_explanation)
              suggested ==
                  /\ ~IsNone(update_data.quality)
                  /\ ~IsNone(SchedulerAnswer(current_node, update_data).suggested_mastery)
          IN  IF suggested
              THEN stored = Get(SchedulerAnswer(current_node, update_data).suggested_mastery)
              ELSE IF ~IsNone(update_data.mastery_level)
              THEN stored = Get(update_data.mastery_level)
              ELSE IF \/ ~IsNone(update_data.mastery_recall)
                      \/ ~IsNone(update_data.mastery_application)
                      \/ ~IsNone(update_data.mastery_explanation)
              THEN C10_Rounds(stored, 30 * recall + 40 * application + 30 * explanation, 100)
              ELSE stored = current_node.mastery_level]_vars

\* C12 witness: the second review of a node carried mastery_level 0.9, drew
\* no suggestion and stored 0.9.
C12_Witness ==
    /\ result.op = "update_node"
    /\ result.error = "OK"
    /\ result.arg.update_data.quality = Some(0)
    /\ result.arg.update_data.mastery_level = Some(90)
    /\ Get(result.ret).mastery_level = 90
    /\ Get(result.ret).review_count = 2

\* C13: every successful update_node that carries a quality increases
\* review_count by exactly 1, sets last_reviewed_at and next_review_at,
\* replaces ease_factor, interval_days and repetitions by the Scheduler's
\* result for the node's scheduling state before the update, and appends
\* exactly one history row whose mastery_before is the mastery_level before
\* the update and whose mastery_after is the mastery_level it stored.
C13_Review ==
    [][(/\ UpdatesExisting
        /\ result'.error = "OK"
        /\ ~IsNone(result'.arg.update_data.quality))
       => LET current_node == NodeById(nodes, result'.arg.node_id)
              update_data == result'.arg.update_data
              stored == NodeById(nodes', result'.arg.node_id)
              sm2_result == SchedulerAnswer(current_node, update_data)
              added == review_history' \ review_history
          IN  /\ stored.review_count = current_node.review_count + 1
              /\ stored.last_reviewed_at = Some(now)
              /\ stored.next_review_at = Some(now + sm2_result.interval_days)
              /\ stored.ease_factor = sm2_result.ease_factor
              /\ stored.interval_days = sm2_result.interval_days
              /\ stored.repetitions = sm2_result.repetitions
              /\ review_history \subseteq review_history'
              /\ Cardinality(added) = 1
              /\ \A h \in added :
                    /\ h.node_id = current_node.id
                    /\ h.quality = Get(update_data.quality)
                    /\ h.mastery_before = current_node.mastery_level
                    /\ h.mastery_after = stored.mastery_level
                    /\ \A g \in review_history : g.id # h.id]_vars

\* C13 witness: a day after its first review a node was reviewed again with
\* quality 3; the suggestion 0.6 replaced the mastery and both reviews are in
\* the history.
C13_Witness ==
    /\ result.op = "update_node"
    /\ result.error = "OK"
    /\ result.arg.update_data.quality = Some(3)
    /\ Get(result.ret).review_count = 2
    /\ Get(result.ret).repetitions = 2
    /\ Get(result.ret).last_reviewed_at = Some(1)
    /\ Cardinality(review_history) = 2
    /\ \E h \in review_history : h.mastery_before = 40 /\ h.mastery_after = 60

-----------------------------------------------------------------------------
(* The history specification: the five mutating operations on two nodes,   *)
(* with reviews and plain patches on both.                                 *)

HistoryPatches ==
    {[EmptyPatch EXCEPT !.quality = Some(4)],
     [EmptyPatch EXCEPT !.mastery_level = Some(90)]}

HistoryEdgeCreates ==
    {EdgeCreate(IdA, IdB, PREREQUISITE, 100),
     EdgeCreate(IdB, IdA, RELATED_TO, 100)}

HistoryAddNode == \E node_data \in PatchCreates : add_node(node_data)

HistoryUpdateNode ==
    \E node_id \in {IdA, IdB}, update_data \in HistoryPatches :
        /\ ~IsNone(update_data.quality) => history_seq < MaxHistoryRows
        /\ update_node(node_id, update_data)

HistoryDeleteNode == \E node_id \in {IdA, IdB} : delete_node(node_id)

HistoryAddEdge == \E edge_data \in HistoryEdgeCreates : add_edge(edge_data)

HistoryDeleteEdge ==
    \E edge_data \in HistoryEdgeCreates :
        delete_edge(<<edge_data.source_id, edge_data.target_id, edge_data.relation_type>>)

HistoryNext ==
    \/ HistoryAddNode
    \/ HistoryUpdateNode
    \/ HistoryDeleteNode
    \/ HistoryAddEdge
    \/ HistoryDeleteEdge

HistorySpec == Init /\ [][HistoryNext]_vars

\* C14: review history is append-only.  A row of a node that still exists
\* is never modified or removed; rows disappear only through delete_node of
\* their own node; and a row is added only by an update_node that carries a
\* quality (add_node, add_edge, delete_edge, delete_node and an update
\* without quality add none).
C14_AppendOnly ==
    [][/\ \A h \in review_history :
            \/ h \in review_history'
            \/ /\ result'.op = "delete_node"
               /\ result'.arg = h.node_id
               /\ ~HasNode(nodes', h.node_id)
               /\ \A g \in review_history' : g.id # h.id
       /\ \A h \in review_history' \ review_history :
            /\ result'.op = "update_node"
            /\ ~IsNone(result'.arg.update_data.quality)
            /\ h.node_id = result'.arg.node_id
            /\ \A g \in review_history : g.id # h.id]_vars

\* C14 witness: both nodes had been reviewed; deleting one of them removed
\* its row and kept the row of the other.
C14_Witness ==
    /\ result.op = "delete_node"
    /\ result.ret = Some(TRUE)
    /\ history_seq = 2
    /\ Cardinality(nodes) = 1
    /\ Cardinality(review_history) = 1
    /\ \A h \in review_history : HasNode(nodes, h.node_id)

-----------------------------------------------------------------------------
(* QueryEngine._topological_sort: Kahn's algorithm.  node_ids is a Python  *)
(* set; the model passes it as the sequence in which the set is iterated,  *)
(* an order the language leaves open.  The result is the list of ids.       *)

SeqToSet(sq) == {sq[i] : i \in 1..Len(sq)}

\* A variant that counts an edge whatever its relation type.
TopoCounted_AnyRelation(ids, edge) ==
    edge.source_id \in ids /\ edge.target_id \in ids

\* The two tests under which an edge enters adj_list and in_degree.
TopoCounted(ids, edge) ==
    /\ edge.relation_type = PREREQUISITE
    /\ edge.source_id \in ids /\ edge.target_id \in ids

TopoInDegree(ids, es) ==
    [n \in ids |->
        Cardinality({i \in 1..Len(es) : TopoCounted(ids, es[i]) /\ es[i].target_id = n})]

\* adj_list[n]: the targets of the counted edges that leave n, in list order.
RECURSIVE TopoAdjList(_, _, _)
TopoAdjList(ids, es, n) ==
    IF es = << >> THEN << >>
    ELSE LET rest == TopoAdjList(ids, Tail(es), n)
         IN  IF TopoCounted(ids, Head(es)) /\ Head(es).source_id = n
             THEN << Head(es).target_id >> \o rest
             ELSE rest

\* "for neighbor in adj_list[node]": in_degree and queue after the loop.
RECURSIVE TopoRelax(_, _, _)
TopoRelax(neighbors, in_degree, queue) ==
    IF neighbors = << >> THEN [in_degree |-> in_degree, queue |-> queue]
    ELSE LET neighbor == Head(neighbors)
             lowered == [in_degree EXCEPT ![neighbor] = @ - 1]
         IN  TopoRelax(Tail(neighbors), lowered,
                       IF lowered[neighbor] = 0 THEN Append(queue, neighbor) ELSE queue)

\* "while queue:"
RECURSIVE TopoLoop(_, _, _, _, _)
TopoLoop(ids, es, queue, in_degree, sorted) ==
    IF queue = << >> THEN sorted
    ELSE LET node == Head(queue)
             after == TopoRelax(TopoAdjList(ids, es, node), in_degree, Tail(queue))
         IN  TopoLoop(ids, es, after.queue, after.in_degree, Append(sorted, node))

_topological_sort(node_ids, es) ==
    LET ids == SeqToSet(node_ids)
        in_degree == TopoInDegree(ids, es)
    IN  TopoLoop(ids, es, SelectSeq(node_ids, LAMBDA n : in_degree[n] = 0),
                 in_degree, << >>)

-----------------------------------------------------------------------------
(* The sort specification: _topological_sort applied to a node set in any  *)
(* iteration order and to an edge list drawn from edges among the nodes,   *)
(* edges to and from a node outside the universe, and RELATED_TO edges.    *)

IdD == << "d" >>

\* All sequences without repetition over a set, up to a length.
RECURSIVE DistinctSeqs(_, _)
DistinctSeqs(S, n) ==
    IF n = 0 THEN {<< >>}
    ELSE LET shorter == DistinctSeqs(S, n - 1)
         IN  shorter \cup {Append(p[1], p[2]) :
                               p \in {q \in shorter \X S : q[2] \notin SeqToSet(q[1])}}

SortEdgeKeys ==
    {k \in NodeIds \X NodeIds \X {PREREQUISITE} : k[1] # k[2]}
    \cup {<< IdB, IdA, RELATED_TO >>, << IdC, IdB, RELATED_TO >>,
          << IdD, IdA, PREREQUISITE >>, << IdA, IdD, PREREQUISITE >>}

SortEdges == {EdgeCreate(k[1], k[2], k[3], 100) : k \in SortEdgeKeys}

SortInputs ==
    [node_ids : DistinctSeqs(NodeIds, Cardinality(NodeIds)),
     edges : DistinctSeqs(SortEdges, MaxSortEdges)]

SortInit ==
    /\ nodes = {}
    /\ edges = {}
    /\ review_history = {}
    /\ history_seq = 0
    /\ now = 0
    /\ result \in {Pending(in) : in \in SortInputs}

Sort ==
    /\ result.op = "call"
    /\ result' = [op |-> "_topological_sort", arg |-> result.arg, error |-> "OK",
                  ret |-> Some(_topological_sort(result.arg.node_ids, result.arg.edges))]
    /\ UNCHANGED <<nodes, edges, review_history, history_seq, now>>

SortNext == Sort

SortSpec == SortInit /\ [][SortNext]_vars

\* The position of an id in a list, 0 when it is absent.
IndexOf(sq, x) == IF \E i \in 1..Len(sq) : sq[i] = x
                  THEN CHOOSE i \in 1..Len(sq) : sq[i] = x
                  ELSE 0

\* sq lists every element of S exactly once.
ListsOnce(sq, S) == SeqToSet(sq) = S /\ Len(sq) = Cardinality(S)

\* C15: for any set of nodes and any acyclic set of PREREQUISITE edges the
\* sort returns every input node exactly once, and for every PREREQUISITE
\* edge with both endpoints in the set the source comes before the target;
\* edges of other types and edges with an endpoint outside the set put no
\* constraint on the order.
C15_TopologicalSort ==
    (result.op = "_topological_sort" /\ Acyclic(SeqToSet(result.arg.edges)))
    => LET ids == SeqToSet(result.arg.node_ids)
           sorted == Get(result.ret)
       IN  /\ ListsOnce(sorted, ids)
           /\ \A e \in SeqToSet(result.arg.edges) :
                 (/\ e.relation_type = PREREQUISITE
                  /\ e.source_id \in ids /\ e.target_id \in ids)
                 => IndexOf(sorted, e.source_id) < IndexOf(sorted, e.target_id)

\* C15 witness: c -> b -> a are prerequisites, the set is iterated as
\* a, b, c and a RELATED_TO edge points against the order; the sort
\* returned c, b, a.
C15_Witness ==
    /\ result.op = "_topological_sort"
    /\ result.arg.node_ids = << IdA, IdB, IdC >>
    /\ result.arg.edges = << EdgeCreate(IdB, IdA, PREREQUISITE, 100),
                             EdgeCreate(IdC, IdB, PREREQUISITE, 100),
                             EdgeCreate(IdB, IdA, RELATED_TO, 100) >>
    /\ result.ret = Some(<< IdC, IdB, IdA >>)

-----------------------------------------------------------------------------
(* QueryEngine.get_learning_path.  A SELECT without ORDER BY returns its   *)
(* rows in an order the store chooses: rows is the edges table in that     *)
(* order.  set_order is the order in which a Python set of ids iterates.   *)

\* "SELECT * FROM edges WHERE target_id = ? AND relation_type = ?"
PrereqRowsInto(rows, current_id) ==
    SelectSeq(rows, LAMBDA e : e.target_id = current_id /\ e.relation_type = PREREQUISITE)

\* "for row in cursor.fetchall()": visited and queue after the rows of one node.
RECURSIVE PathVisit(_, _, _)
PathVisit(found, visited, queue) ==
    IF found = << >> THEN [visited |-> visited, queue |-> queue]
    ELSE LET prereq_id == Head(found).source_id
         IN  IF prereq_id \in visited
             THEN PathVisit(Tail(found), visited, queue)
             ELSE PathVisit(Tail(found), visited \cup {prereq_id}, Append(queue, prereq_id))

\* The BFS over prerequisite edges: visited ids and edges_in_path.
RECURSIVE PathSearch(_, _, _, _)
PathSearch(rows, queue, visited, edges_in_path) ==
    IF queue = << >> THEN [visited |-> visited, edges_in_path |-> edges_in_path]
    ELSE LET found == PrereqRowsInto(rows, Head(queue))
             after == PathVisit(found, visited, Tail(queue))
         IN  PathSearch(rows, after.queue, after.visited, edges_in_path \o found)

\* The rows of the listed ids that exist, in list order.
RECURSIVE FetchNodes(_, _)
FetchNodes(ns, ids) ==
    IF ids = << >> THEN << >>
    ELSE IF HasNode(ns, Head(ids))
         THEN << NodeById(ns, Head(ids)) >> \o FetchNodes(ns, Tail(ids))
         ELSE FetchNodes(ns, Tail(ids))

\* A variant that is ready only when there is no gap at all.
LearningReady_NoGaps(gaps, target_node_id) == Len(gaps) = 0

\* The "ready" entry of the answer.
LearningReady(gaps, target_node_id) ==
    Len(gaps) = 0 \/ (Len(gaps) = 1 /\ gaps[1].id = target_node_id)

get_learning_path(ns, rows, target_node_id, include_mastered, set_order) ==
    LET search == PathSearch(rows, << target_node_id >>, {target_node_id}, << >>)
        all_prereqs == search.visited \ {target_node_id}
        node_ids == SelectSeq(set_order, LAMBDA n : n \in all_prereqs \cup {target_node_id})
        sorted_path == _topological_sort(node_ids, search.edges_in_path)
        fetched == FetchNodes(ns, sorted_path)
        gaps == SelectSeq(fetched, LAMBDA node : node.mastery_level < 80)
        path_nodes == SelectSeq(fetched, LAMBDA node : include_mastered
                                                       \/ node.mastery_level < 80)
    IN  [target |-> target_node_id,
         path |-> path_nodes,
         gaps |-> gaps,
         total_prerequisites |-> Cardinality(all_prereqs),
         gaps_count |-> Len(gaps),
         ready |-> LearningReady(gaps, target_node_id)]

-----------------------------------------------------------------------------
(* The path specification: three nodes, prerequisite and related edges     *)
(* among them, mastery patches around the 0.8 threshold, and learning-path *)
(* queries from every id.                                                   *)

\* Every ordering of a finite set as a sequence.
Orders(S) == {sq \in DistinctSeqs(S, Cardinality(S)) : Len(sq) = Cardinality(S)}

QueryCreates ==
    {NodeCreate(<< "A" >>, Some("math"), 50, None),
     NodeCreate(<< "B" >>, Some("math"), 50, None),
     NodeCreate(<< "C" >>, None, 50, None)}

QueryPatches ==
    {[EmptyPatch EXCEPT !.mastery_level = Some(79)],
     [EmptyPatch EXCEPT !.mastery_level = Some(80)]}

PathEdgeCreates ==
    {EdgeCreate(IdA, IdB, PREREQUISITE, 100),
     EdgeCreate(IdB, IdA, PREREQUISITE, 100),
     EdgeCreate(IdB, IdC, PREREQUISITE, 100),
     EdgeCreate(IdA, IdC, PREREQUISITE, 100),
     EdgeCreate(IdC, IdB, RELATED_TO, 100)}

QueryAddNode == \E node_data \in QueryCreates : add_node(node_data)

QueryUpdateNode ==
    \E node_id \in NodeIds, update_data \in QueryPatches : update_node(node_id, update_data)

PathAddEdge == \E edge_data \in PathEdgeCreates : add_edge(edge_data)

\* A read-only call: it answers from the store and leaves it as it is.
Answer(op, arg, ret) ==
    /\ result' = [op |-> op, arg |-> arg, error |-> "OK", ret |-> Some(ret)]
    /\ UNCHANGED <<nodes, edges, review_history, history_seq, now>>

\* The edges table in every order of its PREREQUISITE rows; the rows of
\* other types, which no SELECT of the path search returns, come first.
PrereqRowOrders(es) ==
    LET others == CHOOSE sq \in Orders({e \in es : e.relation_type # PREREQUISITE}) : TRUE
    IN  {others \o sq : sq \in Orders({e \in es : e.relation_type = PREREQUISITE})}

GetLearningPath ==
    \E target_node_id \in NodeIds, include_mastered \in BOOLEAN,
       rows \in PrereqRowOrders(edges), set_order \in Orders(NodeIds) :
        Answer("get_learning_path",
               [target_node_id |-> target_node_id, include_mastered |-> include_mastered],
               get_learning_path(nodes, rows, target_node_id, include_mastered, set_order))

PathNext ==
    \/ QueryAddNode
    \/ QueryUpdateNode
    \/ PathAddEdge
    \/ GetLearningPath

PathSpec == Init /\ [][PathNext]_vars

\* The direct and transitive PREREQUISITE sources of a node.
PrereqSources(es, x) == {y \in {e.source_id : e \in es} : PrereqPath(es, y, x)}

IdsOf(sq) == [i \in 1..Len(sq) |-> sq[i].id]

\* C16: in every state reached through the mutating operations and for
\* every existing target, get_learning_path(target, include_mastered = true)
\* returns a path that contains the target and every direct or transitive
\* PREREQUISITE source of it exactly once, and total_prerequisites is the
\* number of those sources.
C16_LearningPath ==
    (/\ result.op = "get_learning_path"
     /\ result.arg.include_mastered
     /\ HasNode(nodes, result.arg.target_node_id))
    => LET target == result.arg.target_node_id
           sources == PrereqSources(edges, target) \ {target}
       IN  /\ ListsOnce(IdsOf(Get(result.ret).path), sources \cup {target})
           /\ Get(result.ret).total_prerequisites = Cardinality(sources)

\* C17: on an acyclic prerequisite graph and for an existing target, gaps
\* is exactly the set of nodes of (prerequisite closure plus target) whose
\* mastery_level is below 0.8 and gaps_count is its size; path equals gaps
\* when include_mastered is false and is the whole closure in dependency
\* order when it is true; ready is true exactly when every direct or
\* transitive prerequisite, the target excluded, has mastery_level >= 0.8.
C17_Gaps ==
    (/\ result.op = "get_learning_path"
     /\ Acyclic(edges)
     /\ HasNode(nodes, result.arg.target_node_id))
    => LET target == result.arg.target_node_id
           answer == Get(result.ret)
           sources == PrereqSources(edges, target)
           closure == sources \cup {target}
           below == {id \in closure : NodeById(nodes, id).mastery_level < 80}
       IN  /\ ListsOnce(IdsOf(answer.gaps), below)
           /\ \A i \in 1..Len(answer.gaps) : answer.gaps[i] \in nodes
           /\ answer.gaps_count = Cardinality(below)
           /\ ~result.arg.include_mastered => answer.path = answer.gaps
           /\ result.arg.include_mastered =>
                 /\ ListsOnce(IdsOf(answer.path), closure)
                 /\ \A i \in 1..Len(answer.path) : answer.path[i] \in nodes
                 /\ \A e \in edges :
                       (/\ e.relation_type = PREREQUISITE
                        /\ e.source_id \in closure /\ e.target_id \in closure)
                       => IndexOf(IdsOf(answer.path), e.source_id)
                              < IndexOf(IdsOf(answer.path), e.target_id)
           /\ answer.ready <=>
                 \A id \in sources : NodeById(nodes, id).mastery_level >= 80

\* C17 witness: the target sits just below the threshold, its two
\* prerequisites, one of them transitive as well, sit on it: the target is
\* the only gap and the answer is ready.
C17_Witness ==
    /\ result.op = "get_learning_path"
    /\ Acyclic(edges)
    /\ result.arg = [target_node_id |-> IdC, include_mastered |-> FALSE]
    /\ Get(result.ret).total_prerequisites = 2
    /\ Get(result.ret).ready
    /\ IdsOf(Get(result.ret).path) = << IdC >>
    /\ Get(result.ret).gaps_count = 1
    /\ NodeById(nodes, IdC).mastery_level = 79
    /\ NodeById(nodes, IdA).mastery_level = 80
    /\ Cardinality(edges) = 4

-----------------------------------------------------------------------------
(* QueryEngine.get_subgraph: a breadth-first search bounded by depth.  The *)
(* queue holds pairs << id, depth >>.                                       *)

Directions == {"upstream", "downstream", "both"}

\* A variant that still expands a node sitting at the requested depth.
SubgraphStops_Late(current_depth, depth) == current_depth > depth

\* "if current_depth >= depth: continue"
SubgraphStops(current_depth, depth) == current_depth >= depth

\* A variant that queues the far end of every row, marked or not.
RECURSIVE SubgraphVisit_NoMark(_, _, _, _)
SubgraphVisit_NoMark(far_ids, visited_nodes, queue, next_depth) ==
    IF far_ids = << >> THEN [visited_nodes |-> visited_nodes, queue |-> queue]
    ELSE SubgraphVisit_NoMark(Tail(far_ids), visited_nodes \cup {Head(far_ids)},
                              Append(queue, << Head(far_ids), next_depth >>), next_depth)

\* "for row in cursor.fetchall()": the ids at the far end of the rows are
\* marked and queued one level deeper.
RECURSIVE SubgraphVisit(_, _, _, _)
SubgraphVisit(far_ids, visited_nodes, queue, next_depth) ==
    IF far_ids = << >> THEN [visited_nodes |-> visited_nodes, queue |-> queue]
    ELSE IF Head(far_ids) \in visited_nodes
         THEN SubgraphVisit(Tail(far_ids), visited_nodes, queue, next_depth)
         ELSE SubgraphVisit(Tail(far_ids), visited_nodes \cup {Head(far_ids)},
                            Append(queue, << Head(far_ids), next_depth >>), next_depth)

RECURSIVE SubgraphSearch(_, _, _, _, _, _)
SubgraphSearch(rows, depth, direction, queue, visited_nodes, collected_edges) ==
    IF queue = << >>
    THEN [visited_nodes |-> visited_nodes, collected_edges |-> collected_edges]
    ELSE LET current_id == Head(queue)[1]
             current_depth == Head(queue)[2]
             into == IF direction \in {"upstream", "both"}
                     THEN SelectSeq(rows, LAMBDA e : e.target_id = current_id)
                     ELSE << >>
             up == SubgraphVisit([i \in 1..Len(into) |-> into[i].source_id],
                                 visited_nodes, Tail(queue), current_depth + 1)
             from == IF direction \in {"downstream", "both"}
                     THEN SelectSeq(rows, LAMBDA e : e.source_id = current_id)
                     ELSE << >>
             down == SubgraphVisit([i \in 1..Len(from) |-> from[i].target_id],
                                   up.visited_nodes, up.queue, current_depth + 1)
         IN  IF SubgraphStops(current_depth, depth)
             THEN SubgraphSearch(rows, depth, direction, Tail(queue),
                                 visited_nodes, collected_edges)
             ELSE SubgraphSearch(rows, depth, direction, down.queue,
                                 down.visited_nodes, collected_edges \o into \o from)

get_subgraph(ns, rows, center_node_id, depth, direction, set_order) ==
    LET search == SubgraphSearch(rows, depth, direction, << << center_node_id, 0 >> >>,
                                 {center_node_id}, << >>)
    IN  [nodes |-> FetchNodes(ns, SelectSeq(set_order,
                                            LAMBDA n : n \in search.visited_nodes)),
         edges |-> search.collected_edges]

-----------------------------------------------------------------------------
(* The subgraph specification: a chain of two prerequisite edges, a        *)
(* related edge that closes it to a ring and a related edge that doubles   *)
(* its first link; subgraph queries from every id.                          *)

SubgraphEdgeCreates ==
    {EdgeCreate(IdA, IdB, PREREQUISITE, 100),
     EdgeCreate(IdB, IdC, PREREQUISITE, 100),
     EdgeCreate(IdC, IdA, RELATED_TO, 100),
     EdgeCreate(IdA, IdB, RELATED_TO, 100)}

SubgraphAddEdge == \E edge_data \in SubgraphEdgeCreates : add_edge(edge_data)

GetSubgraph ==
    \E center_node_id \in NodeIds, depth \in 0..MaxDepth, direction \in Directions,
       rows \in Orders(edges), set_order \in Orders(NodeIds) :
        Answer("get_subgraph",
               [center_node_id |-> center_node_id, depth |-> depth,
                direction |-> direction],
               get_subgraph(nodes, rows, center_node_id, depth, direction, set_order))

SubgraphNext ==
    \/ QueryAddNode
    \/ SubgraphAddEdge
    \/ GetSubgraph

SubgraphSpec == Init /\ [][SubgraphNext]_vars

\* The ids one hop away from a set: a hop follows an edge of any type from
\* target to source (upstream), from source to target (downstream), or
\* either way (both).
HopNeighbours(es, direction, from) ==
    {e.source_id : e \in {x \in es : direction # "downstream" /\ x.target_id \in from}}
    \cup {e.target_id : e \in {x \in es : direction # "upstream" /\ x.source_id \in from}}

\* The ids whose hop distance from the set is at most k.
RECURSIVE HopBall(_, _, _, _)
HopBall(es, direction, from, k) ==
    IF k = 0 THEN from
    ELSE HopBall(es, direction, from \cup HopNeighbours(es, direction, from), k - 1)

\* C18: get_subgraph(center, depth, direction) on an existing center returns,
\* each exactly once, precisely the nodes whose shortest hop distance from
\* the center is at most depth; depth = 0 returns only the center and no
\* edges; and with the single edge Y -> X, center X, depth 1 and direction
\* upstream the nodes are {X, Y} and the edges {Y -> X}.
C18_Subgraph ==
    (result.op = "get_subgraph" /\ HasNode(nodes, result.arg.center_node_id))
    => LET center == result.arg.center_node_id
           answer == Get(result.ret)
       IN  /\ ListsOnce(IdsOf(answer.nodes),
                        HopBall(edges, result.arg.direction, {center}, result.arg.depth))
           /\ \A i \in 1..Len(answer.nodes) : answer.nodes[i] \in nodes
           /\ result.arg.depth = 0 =>
                 /\ answer.nodes = << NodeById(nodes, center) >>
                 /\ answer.edges = << >>
           /\ (/\ Cardinality(edges) = 1
               /\ \A e \in edges : e.target_id = center /\ e.source_id # center
               /\ result.arg.depth = 1
               /\ result.arg.direction = "upstream")
              => /\ Len(answer.nodes) = 2
                 /\ \A e \in edges : SeqToSet(IdsOf(answer.nodes)) = {center, e.source_id}
                 /\ \A e \in edges : answer.edges = << e >>

\* C18 witness: on the ring a -> b -> c -> a, asked upstream from c with
\* depth 1, the answer holds c and b and not a, which is two hops away.
C18_Witness ==
    /\ result.op = "get_subgraph"
    /\ result.arg = [center_node_id |-> IdC, depth |-> 1, direction |-> "upstream"]
    /\ Cardinality(edges) = 4
    /\ SeqToSet(IdsOf(Get(result.ret).nodes)) = {IdB, IdC}
    /\ Len(Get(result.ret).edges) = 1

-----------------------------------------------------------------------------
(* QueryEngine._query_ready_to_learn.  node_rows is the nodes table in the *)
(* order in which the store returns it.                                     *)

\* "if domain:" adds "AND n.domain = ?" to the query.
DomainMatches(node, domain) == Truthy(domain) => node.domain = domain

\* A variant whose join does not look at the relation type.
PrereqsMastered_AnyRelation(ns, es, node_id) ==
    \A e \in es : e.target_id = node_id
        => \A n \in ns : n.id = e.source_id => n.mastery_level >= 80

\* "not prereq_masteries or all(row[0] >= 0.8 for row in prereq_masteries)"
\* over the join of nodes and PREREQUISITE edges into the node.
PrereqsMastered(ns, es, node_id) ==
    \A e \in es : (e.target_id = node_id /\ e.relation_type = PREREQUISITE)
        => \A n \in ns : n.id = e.source_id => n.mastery_level >= 80

\* "for node in candidates:", with the break once limit nodes are collected.
RECURSIVE ReadyLoop(_, _, _, _, _)
ReadyLoop(ns, es, candidates, ready_nodes, limit) ==
    IF candidates = << >> THEN ready_nodes
    ELSE LET node == Head(candidates)
             collected == IF PrereqsMastered(ns, es, node.id)
                          THEN Append(ready_nodes, node)
                          ELSE ready_nodes
         IN  IF Len(collected) >= limit THEN collected
             ELSE ReadyLoop(ns, es, Tail(candidates), collected, limit)

_query_ready_to_learn(node_rows, es, domain, limit) ==
    LET candidates == SelectSeq(node_rows, LAMBDA n : n.mastery_level < 80
                                                      /\ DomainMatches(n, domain))
        ready_nodes == ReadyLoop(SeqToSet(node_rows), es, candidates, << >>, limit)
    IN  [query_type |-> "ready_to_learn", nodes |-> ready_nodes, count |-> Len(ready_nodes)]

-----------------------------------------------------------------------------
(* The ready specification: two nodes of one domain and one without,       *)
(* mastery patches below, on and above the threshold, prerequisite edges   *)
(* and a related edge; ready_to_learn with and without a domain.           *)

ReadyPatches ==
    {[EmptyPatch EXCEPT !.mastery_level = Some(79)],
     [EmptyPatch EXCEPT !.mastery_level = Some(80)],
     [EmptyPatch EXCEPT !.mastery_level = Some(90)]}

ReadyEdgeCreates ==
    {EdgeCreate(IdA, IdB, PREREQUISITE, 100),
     EdgeCreate(IdA, IdC, PREREQUISITE, 100),
     EdgeCreate(IdB, IdC, PREREQUISITE, 100),
     EdgeCreate(IdC, IdB, RELATED_TO, 100)}

Domains == {None, Some(""), Some("math"), Some("art")}

ReadyUpdateNode ==
    \E node_id \in NodeIds, update_data \in ReadyPatches : update_node(node_id, update_data)

ReadyAddEdge == \E edge_data \in ReadyEdgeCreates : add_edge(edge_data)

ReadyToLearn ==
    \E domain \in Domains, limit \in 0..MaxLimit, node_rows \in Orders(nodes) :
        Answer("ready_to_learn", [domain |-> domain, limit |-> limit],
               _query_ready_to_learn(node_rows, edges, domain, limit))

ReadyNext ==
    \/ QueryAddNode
    \/ ReadyUpdateNode
    \/ ReadyAddEdge
    \/ ReadyToLearn

ReadySpec == Init /\ [][ReadyNext]_vars

\* C19: asked with a limit of at least the number of nodes, ready_to_learn
\* returns exactly the nodes (of the requested domain when one is given)
\* whose mastery_level is below 0.8 and whose every PREREQUISITE source has
\* mastery_level >= 0.8; a node without incoming PREREQUISITE edges
\* qualifies, edges of other types are ignored, and a node B below 0.8 whose
\* only prerequisite A has mastery 0.9 is returned.
C19_ReadyToLearn ==
    (result.op = "ready_to_learn" /\ result.arg.limit >= Cardinality(nodes))
    => LET answer == Get(result.ret)
           given == ~IsNone(result.arg.domain) /\ Get(result.arg.domain) # ""
           expected ==
               {n \in nodes :
                   /\ n.mastery_level < 80
                   /\ given => n.domain = result.arg.domain
                   /\ \A e \in edges :
                         (e.relation_type = PREREQUISITE /\ e.target_id = n.id)
                         => NodeById(nodes, e.source_id).mastery_level >= 80}
       IN  /\ ListsOnce(answer.nodes, expected)
           /\ answer.count = Cardinality(expected)
           /\ \A a \in nodes, b \in nodes :
                 (/\ a.mastery_level = 90 /\ b.mastery_level < 80
                  /\ ~given
                  /\ \A e \in edges :
                        (e.relation_type = PREREQUISITE /\ e.target_id = b.id)
                        => e.source_id = a.id)
                 => b \in SeqToSet(answer.nodes)

\* C19 witness: a (0.9) is the only prerequisite of b (0.79), c (0.79) is
\* related to b and is a prerequisite of nothing; asked for "math" with
\* limit 3 the answer is b alone.
C19_Witness ==
    /\ result.op = "ready_to_learn"
    /\ result.arg = [domain |-> Some("math"), limit |-> 3]
    /\ Cardinality(nodes) = 3
    /\ NodeById(nodes, IdA).mastery_level = 90
    /\ NodeById(nodes, IdB).mastery_level = 79
    /\ NodeById(nodes, IdC).mastery_level = 79
    /\ {EdgeKey(e) : e \in edges} = {<< IdA, IdB, PREREQUISITE >>, << IdC, IdB, RELATED_TO >>}
    /\ IdsOf(Get(result.ret).nodes) = << IdB >>

-----------------------------------------------------------------------------
(* QueryEngine._query_due_for_review, _query_knowledge_gaps and            *)
(* _query_next_recommended.  ORDER BY is a stable sort of the store's row  *)
(* order, so that every way of breaking a tie is some row order.           *)

\* "LIMIT ?": a negative limit is no limit.
LimitRows(rows, limit) ==
    IF limit < 0 THEN rows ELSE SubSeq(rows, 1, Min(limit, Len(rows)))

RECURSIVE InsertByKey(_, _, _)
InsertByKey(sorted, x, key) ==
    IF sorted = << >> THEN << x >>
    ELSE IF key[x] < key[Head(sorted)] THEN << x >> \o sorted
    ELSE << Head(sorted) >> \o InsertByKey(Tail(sorted), x, key)

\* The rows in ascending order of key, rows of equal key in their old order.
RECURSIVE OrderBy(_, _, _)
OrderBy(rows, key, sorted) ==
    IF rows = << >> THEN sorted
    ELSE OrderBy(Tail(rows), key, InsertByKey(sorted, Head(rows), key))

\* A variant whose comparison with the clock is strict.
_query_due_for_review_Strict(node_rows, domain, limit, clock) ==
    LET due == SelectSeq(node_rows, LAMBDA n : /\ ~IsNone(n.next_review_at)
                                               /\ Get(n.next_review_at) < clock
                                               /\ DomainMatches(n, domain))
        ordered == OrderBy(due, [n \in SeqToSet(due) |-> Get(n.next_review_at)], << >>)
    IN  [query_type |-> "due_for_review", nodes |-> LimitRows(ordered, limit),
         count |-> Len(LimitRows(ordered, limit))]

_query_due_for_review(node_rows, domain, limit, clock) ==
    LET due == SelectSeq(node_rows, LAMBDA n : /\ ~IsNone(n.next_review_at)
                                               /\ Get(n.next_review_at) <= clock
                                               /\ DomainMatches(n, domain))
        ordered == OrderBy(due, [n \in SeqToSet(due) |-> Get(n.next_review_at)], << >>)
    IN  [query_type |-> "due_for_review", nodes |-> LimitRows(ordered, limit),
         count |-> Len(LimitRows(ordered, limit))]

\* COUNT(e.target_id) of the group of a node: the PREREQUISITE edges it is
\* the source of.
BlockedCount(es, n) ==
    Cardinality({e \in es : e.source_id = n.id /\ e.relation_type = PREREQUISITE})

_query_knowledge_gaps(node_rows, es, domain, limit) ==
    LET gaps == SelectSeq(node_rows, LAMBDA n : /\ BlockedCount(es, n) > 0
                                                /\ n.mastery_level < 60
                                                /\ DomainMatches(n, domain))
        ordered == OrderBy(gaps, [n \in SeqToSet(gaps) |-> 0 - BlockedCount(es, n)], << >>)
    IN  [query_type |-> "knowledge_gaps", nodes |-> LimitRows(ordered, limit),
         count |-> Len(LimitRows(ordered, limit))]

Recommendation(node, reason, priority) ==
    [node |-> node, reason |-> reason, priority |-> priority]

\* A variant that appends without looking at the ids already chosen.
RECURSIVE Recommend_NoSkip(_, _, _, _)
Recommend_NoSkip(recommendations, found, reason, priority) ==
    IF found = << >> THEN recommendations
    ELSE Recommend_NoSkip(Append(recommendations,
                                 Recommendation(Head(found), reason, priority)),
                          Tail(found), reason, priority)

\* "if node["id"] not in [r["id"] for r in recommendations]: append"
RECURSIVE Recommend(_, _, _, _)
Recommend(recommendations, found, reason, priority) ==
    IF found = << >> THEN recommendations
    ELSE IF \E i \in 1..Len(recommendations) : recommendations[i].node.id = Head(found).id
         THEN Recommend(recommendations, Tail(found), reason, priority)
         ELSE Recommend(Append(recommendations,
                               Recommendation(Head(found), reason, priority)),
                        Tail(found), reason, priority)

\* "recommendations[:limit]"
SliceTo(sq, limit) ==
    IF limit >= 0 THEN SubSeq(sq, 1, Min(limit, Len(sq)))
    ELSE SubSeq(sq, 1, Max(0, Len(sq) + limit))

_query_next_recommended(node_rows, es, domain, limit, clock) ==
    LET due_result == _query_due_for_review(node_rows, domain, 3, clock)
        first == [i \in 1..Len(due_result.nodes) |->
                     Recommendation(due_result.nodes[i], "Due for review", 1)]
        gaps_result == _query_knowledge_gaps(node_rows, es, domain, 3)
        second == Recommend(first, gaps_result.nodes,
                            "Knowledge gap blocking other concepts", 2)
        ready_result == _query_ready_to_learn(node_rows, es, domain, 3)
        third == Recommend(second, ready_result.nodes,
                           "Prerequisites mastered, ready to learn", 3)
        sorted == OrderBy(third, [r \in SeqToSet(third) |-> r.priority], << >>)
        recommendations == SliceTo(sorted, limit)
    IN  [query_type |-> "next_recommended", recommendations |-> recommendations,
         count |-> Len(recommendations)]

-----------------------------------------------------------------------------
(* The recommendation specification: next_recommended asked of a store of  *)
(* four nodes.  Each store is one that the operations build: the nodes are *)
(* added on day 0 and some are patched to mastery 0.9, the edges are added *)
(* in an order that add_edge accepts, some nodes are reviewed on day 0 and *)
(* some on day 1, each day in id order, and the days pass.                  *)

RecommendCreates ==
    [i \in 1..4 |-> NodeCreate(<< << "A" >>, << "B" >>, << "C" >>, << "d" >> >>[i],
                               << Some("math"), Some("math"), None, Some("math") >>[i],
                               50, None)]

RecommendKinds == {"fresh", "mastered", "reviewed0", "reviewed1"}

\* The row of the i-th node: as add_node made it, or after the one
\* update_node of its kind.
RecommendRow(i, kind) ==
    LET fresh == NewNodeRow(_generate_node_id(RecommendCreates[i].concept),
                            RecommendCreates[i], 0)
    IN  IF kind = "fresh" THEN fresh
        ELSE IF kind = "mastered"
        THEN UpdatedRow(fresh, [EmptyPatch EXCEPT !.mastery_level = Some(90)], 0)
        ELSE IF kind = "reviewed0"
        THEN UpdatedRow(fresh, [EmptyPatch EXCEPT !.quality = Some(5)], 0)
        ELSE UpdatedRow(fresh, [EmptyPatch EXCEPT !.quality = Some(5)], 1)

\* The AUTOINCREMENT id of the review of the i-th node: day 0 before day 1,
\* and within a day in id order.
RecommendReviewId(kinds, i) ==
    IF kinds[i] = "reviewed0"
    THEN Cardinality({j \in 1..i : kinds[j] = "reviewed0"})
    ELSE Cardinality({j \in 1..4 : kinds[j] = "reviewed0"})
         + Cardinality({j \in 1..i : kinds[j] = "reviewed1"})

RecommendHistory(kinds) ==
    {HistoryRow(RecommendReviewId(kinds, i), RecommendRow(i, "fresh"),
                [EmptyPatch EXCEPT !.quality = Some(5)],
                IF kinds[i] = "reviewed0" THEN 0 ELSE 1) :
        i \in {j \in 1..4 : kinds[j] \in {"reviewed0", "reviewed1"}}}

\* A chain a -> b -> c -> d, the edge d -> a that closes it, and a shortcut.
RecommendEdgeCreates ==
    {EdgeCreate(IdA, IdB, PREREQUISITE, 100),
     EdgeCreate(IdB, IdC, PREREQUISITE, 100),
     EdgeCreate(IdC, IdD, PREREQUISITE, 100),
     EdgeCreate(IdD, IdA, PREREQUISITE, 100),
     EdgeCreate(IdA, IdC, PREREQUISITE, 100)}

\* add_edge accepts the edges one after the other in this order.
RECURSIVE Insertable(_, _, _)
Insertable(ns, order, es) ==
    \/ order = << >>
    \/ /\ AddEdgeCheck(ns, es, Head(order)) = "OK"
       /\ EdgeInsertAllowed(ns, es, Head(order))
       /\ Insertable(ns, Tail(order), es \cup {Head(order)})

RecommendEdgeSets ==
    {es \in SUBSET RecommendEdgeCreates :
        \E order \in Orders(es) :
            Insertable({RecommendRow(i, "fresh") : i \in 1..4}, order, {})}

RecommendLimits == {0, MaxLimit, 10}

RecommendInit ==
    /\ now \in 0..MaxRecommendClock
    /\ edges \in RecommendEdgeSets
    /\ \E kinds \in [1..4 -> RecommendKinds] :
          /\ (\E i \in 1..4 : kinds[i] = "reviewed1") => now >= 1
          /\ nodes = {RecommendRow(i, kinds[i]) : i \in 1..4}
          /\ review_history = RecommendHistory(kinds)
          /\ history_seq = Cardinality(RecommendHistory(kinds))
    /\ result = NoCall

NextRecommended ==
    /\ result = NoCall
    /\ \E domain \in {None, Some("math")}, limit \in RecommendLimits,
          node_rows \in Orders(nodes) :
           Answer("next_recommended", [domain |-> domain, limit |-> limit],
                  _query_next_recommended(node_rows, edges, domain, limit, now))

RecommendNext == NextRecommended

RecommendSpec == RecommendInit /\ [][RecommendNext]_vars

\* The node is of the domain asked for, when one is asked for.
C20_InDomain(n) ==
    (~IsNone(result.arg.domain) /\ Get(result.arg.domain) # "") => n.domain = result.arg.domain

C20_Due(n) ==
    /\ ~IsNone(n.next_review_at) /\ Get(n.next_review_at) <= now
    /\ C20_InDomain(n)

C20_Blocks(n) ==
    Cardinality({e \in edges : e.relation_type = PREREQUISITE /\ e.source_id = n.id})

C20_Gap(n) == n.mastery_level < 60 /\ C20_Blocks(n) > 0 /\ C20_InDomain(n)

C20_Ready(n) ==
    /\ n.mastery_level < 80
    /\ \A e \in edges : (e.relation_type = PREREQUISITE /\ e.target_id = n.id)
                        => NodeById(nodes, e.source_id).mastery_level >= 80
    /\ C20_InDomain(n)

-----------------------------------------------------------------------------
(* QueryEngine._query_prerequisites: the upstream subgraph of depth 10,    *)
(* with the edge list filtered to PREREQUISITE and the node list cut to    *)
(* limit.  node_id is optional.                                             *)

_query_prerequisites(ns, rows, node_id, limit, set_order) ==
    IF IsNone(node_id) \/ Get(node_id) = << >>
    THEN [error |-> "node_id is required for prerequisites query", nodes |-> << >>]
    ELSE LET subgraph == get_subgraph(ns, rows, Get(node_id), 10, "upstream", set_order)
         IN  [query_type |-> "prerequisites",
              target_node |-> Get(node_id),
              nodes |-> SliceTo(subgraph.nodes, limit),
              edges |-> SelectSeq(subgraph.edges,
                                  LAMBDA e : e.relation_type = PREREQUISITE),
              total_count |-> Len(subgraph.nodes)]

-----------------------------------------------------------------------------
(* The prerequisites specification: the graph of the subgraph              *)
(* specification, asked for the prerequisites of every id.                  *)

QueryPrerequisites ==
    \E node_id \in {None} \cup {Some(id) : id \in NodeIds}, limit \in RecommendLimits,
       rows \in Orders(edges), set_order \in Orders(NodeIds) :
        Answer("prerequisites", [node_id |-> node_id, limit |-> limit],
               _query_prerequisites(nodes, rows, node_id, limit, set_order))

PrerequisitesNext ==
    \/ QueryAddNode
    \/ SubgraphAddEdge
    \/ QueryPrerequisites

PrerequisitesSpec == Init /\ [][PrerequisitesNext]_vars

\* C21: the prerequisites query of an existing node returns only
\* PREREQUISITE edges, and every returned node is the queried node or a node
\* from which the queried node is reachable along PREREQUISITE edges only.
C21_Prerequisites ==
    (/\ result.op = "prerequisites"
     /\ ~IsNone(result.arg.node_id)
     /\ HasNode(nodes, Get(result.arg.node_id)))
    => LET answer == Get(result.ret)
           target == Get(result.arg.node_id)
       IN  /\ \A i \in 1..Len(answer.edges) : answer.edges[i].relation_type = PREREQUISITE
           /\ \A i \in 1..Len(answer.nodes) :
                 \/ answer.nodes[i].id = target
                 \/ PrereqPath(edges, answer.nodes[i].id, target)

-----------------------------------------------------------------------------
(* GraphService.get_statistics.  Averages are in hundredths, rounded as    *)
(* round(x, 2) rounds.                                                      *)

\* "WHERE domain = ?" is added when "if domain" holds.
InDomainClause(ns, domain) == {n \in ns : Truthy(domain) => n.domain = domain}

RECURSIVE SumMastery(_)
SumMastery(ns) ==
    IF ns = {} THEN 0
    ELSE LET n == CHOOSE x \in ns : TRUE
         IN  n.mastery_level + SumMastery(ns \ {n})

\* AVG(mastery_level), NULL (None) over no rows.
AvgMastery(ns) == IF ns = {} THEN None ELSE Some(Round(SumMastery(ns), Cardinality(ns)))

\* The five (low, high, label) rows of mastery_ranges.
mastery_ranges ==
    << << 0, 20, "not_started" >>, << 20, 40, "beginning" >>, << 40, 60, "learning" >>,
       << 60, 80, "proficient" >>, << 80, 101, "mastered" >> >>

get_statistics(node_rows, domain, clock) ==
    LET ns == SeqToSet(node_rows)
        selected == InDomainClause(ns, domain)
        hard == SelectSeq(node_rows, LAMBDA n : /\ n.difficulty > 50
                                                /\ n.mastery_level < 40
                                                /\ n \in selected)
        ranked == LimitRows(OrderBy(hard, [n \in SeqToSet(hard) |->
                                              0 - (n.difficulty - n.mastery_level)],
                                    << >>), 5)
        domains == {Get(n.domain) : n \in {x \in ns : ~IsNone(x.domain)}}
    IN  [total_concepts |-> Cardinality(selected),
         mastery_distribution |->
             [label \in {mastery_ranges[i][3] : i \in 1..5} |->
                 LET range == CHOOSE i \in 1..5 : mastery_ranges[i][3] = label
                 IN  Cardinality({n \in selected :
                                     /\ n.mastery_level >= mastery_ranges[range][1]
                                     /\ n.mastery_level < mastery_ranges[range][2]})],
         average_mastery_by_domain |->
             [d \in domains |-> Get(AvgMastery({n \in ns : n.domain = Some(d)}))],
         overall_mastery |-> OrElse(AvgMastery(selected), 0),
         concepts_due_for_review |->
             Cardinality({n \in selected : /\ ~IsNone(n.next_review_at)
                                           /\ Get(n.next_review_at) <= clock}),
         misconceptions_count |-> Cardinality({n \in selected : n.misconceptions # << >>}),
         struggling_concepts |->
             [i \in 1..Len(ranked) |->
                 [id |-> ranked[i].id, concept |-> ranked[i].concept,
                  mastery |-> ranked[i].mastery_level,
                  difficulty |-> ranked[i].difficulty]]]

-----------------------------------------------------------------------------
(* The statistics specification: nodes of two domains and one without,     *)
(* mastery and misconception patches, and get_statistics with and without  *)
(* a domain.                                                                *)

StatisticsCreates ==
    {NodeCreate(<< "A" >>, Some("math"), 50, None),
     NodeCreate(<< "B" >>, Some("art"), 100, None),
     NodeCreate(<< "C" >>, None, 100, None)}

StatisticsPatches ==
    {[EmptyPatch EXCEPT !.mastery_level = Some(45)],
     [EmptyPatch EXCEPT !.misconception_detected = Some("m1")]}

StatisticsAddNode == \E node_data \in StatisticsCreates : add_node(node_data)

StatisticsUpdateNode ==
    \E node_id \in NodeIds, update_data \in StatisticsPatches :
        update_node(node_id, update_data)

GetStatistics ==
    \E domain \in {None, Some("math"), Some("art")}, node_rows \in Orders(nodes) :
        Answer("get_statistics", domain, get_statistics(node_rows, domain, now))

StatisticsNext ==
    \/ StatisticsAddNode
    \/ StatisticsUpdateNode
    \/ GetStatistics

StatisticsSpec == Init /\ [][StatisticsNext]_vars

\* C22: when get_statistics is called with a domain, every aggregate is
\* computed over the nodes of that domain only: total_concepts, the five
\* mastery bands, the due count, the misconception count, the struggling
\* list, the overall average, and the per-domain average map, which has no
\* entry for any other domain.
C22_DomainStatistics ==
    (result.op = "get_statistics" /\ ~IsNone(result.arg))
    => LET answer == Get(result.ret)
           mine == {n \in nodes : n.domain = result.arg}
           band(low, high) ==
               Cardinality({n \in mine : low <= n.mastery_level /\ n.mastery_level < high})
       IN  /\ answer.total_concepts = Cardinality(mine)
           /\ answer.mastery_distribution["not_started"] = band(0, 20)
           /\ answer.mastery_distribution["beginning"] = band(20, 40)
           /\ answer.mastery_distribution["learning"] = band(40, 60)
           /\ answer.mastery_distribution["proficient"] = band(60, 80)
           /\ answer.mastery_distribution["mastered"] = band(80, 101)
           /\ answer.concepts_due_for_review =
                 Cardinality({n \in mine : /\ n.next_review_at # None
                                           /\ Get(n.next_review_at) <= now})
           /\ answer.misconceptions_count =
                 Cardinality({n \in mine : Len(n.misconceptions) > 0})
           /\ \A i \in 1..Len(answer.struggling_concepts) :
                 \E n \in mine : n.id = answer.struggling_concepts[i].id
           /\ mine # {} => C10_Rounds(answer.overall_mastery, SumMastery(mine),
                                      Cardinality(mine))
           /\ mine = {} => answer.overall_mastery = 0
           /\ DOMAIN answer.average_mastery_by_domain \subseteq {Get(result.arg)}

-----------------------------------------------------------------------------
(* The tools add_node, add_edge and update_node of server.py, statement by *)
(* statement against the store.  A call opens a connection, runs its       *)
(* SELECTs, writes inside the implicit transaction, commits, and fetches   *)
(* the row it returns; get_connection closes the connection on every exit, *)
(* which discards what was written and not committed.  Any store statement *)
(* can raise; the tool catches the exception and returns a failure result. *)

\* The statement at which the store raises, or "none".
StorePoints == {"none", "select", "insert", "update", "commit", "fetch"}

\* The outcome of the service call when the store never raises: the error
\* kind, and the tables as they are once the writes are committed.
AddNodeOutcome(node_data) ==
    LET node_id == IF IsNone(node_data.node_id)
                   THEN _generate_node_id(node_data.concept)
                   ELSE Get(node_data.node_id)
        row == NewNodeRow(node_id, node_data, now)
        error == IF ~NodeCreateValid(node_data) THEN "InvalidInput"
                 ELSE IF HasNode(nodes, node_id) THEN "DuplicateID"
                 ELSE "OK"
    IN  [error |-> error, ret |-> Some(row), writes |-> {"insert"},
         nodes |-> nodes \cup {row}, edges |-> edges,
         review_history |-> review_history, history_seq |-> history_seq]

AddEdgeOutcome(edge_data) ==
    LET check == AddEdgeCheck(nodes, edges, edge_data)
        error == IF ~EdgeCreateValid(edge_data) THEN "InvalidInput"
                 ELSE IF check # "OK" THEN check
                 ELSE IF ~EdgeInsertAllowed(nodes, edges, edge_data) THEN "StoreFailure"
                 ELSE "OK"
    IN  [error |-> error, ret |-> Some(edge_data), writes |-> {"insert"},
         nodes |-> nodes, edges |-> edges \cup {edge_data},
         review_history |-> review_history, history_seq |-> history_seq]

UpdateNodeOutcome(node_id, update_data) ==
    LET reviewed == ~IsNone(update_data.quality)
        error == IF ~NodeUpdateValid(update_data) THEN "InvalidInput"
                 ELSE IF ~HasNode(nodes, node_id) THEN "NotFound"
                 ELSE IF /\ reviewed
                         /\ ReviewOf(NodeById(nodes, node_id), update_data, now).error # "OK"
                      THEN "InvalidInput"
                 ELSE "OK"
    IN  IF error # "OK"
        THEN [error |-> error, ret |-> None, writes |-> {},
              nodes |-> nodes, edges |-> edges,
              review_history |-> review_history, history_seq |-> history_seq]
        ELSE LET current_node == NodeById(nodes, node_id)
                 row == UpdatedRow(current_node, update_data, now)
             IN  [error |-> "OK", ret |-> Some(row),
                  writes |-> (IF reviewed THEN {"insert"} ELSE {})
                             \cup (IF HasUpdates(update_data) THEN {"update"} ELSE {}),
                  nodes |-> (nodes \ {current_node}) \cup {row}, edges |-> edges,
                  review_history |->
                      IF reviewed
                      THEN review_history
                           \cup {HistoryRow(history_seq + 1, current_node, update_data, now)}
                      ELSE review_history,
                  history_seq |-> IF reviewed THEN history_seq + 1 ELSE history_seq]

\* Whether the call gets as far as the statement `failure`, so that the
\* store can raise there.
Reaches(outcome, failure) ==
    CASE failure = "none" -> FALSE
      [] failure = "select" -> outcome.error # "InvalidInput"
      [] failure \in {"insert", "update"} -> outcome.error = "OK" /\ failure \in outcome.writes
      [] failure = "commit" -> outcome.error = "OK" /\ outcome.writes # {}
      [] failure = "fetch" -> outcome.error = "OK"

\* What the closed connection leaves in the store: the committed writes
\* when the call got past conn.commit(), nothing of the call otherwise.
Persisted(outcome, failure) ==
    IF outcome.error = "OK" /\ (~Reaches(outcome, failure) \/ failure = "fetch")
    THEN outcome
    ELSE [outcome EXCEPT !.nodes = nodes, !.edges = edges,
                         !.review_history = review_history,
                         !.history_seq = history_seq]

\* The tool: the service call inside try/except.
Tool(op, arg, outcome, failure) ==
    LET raised == Reaches(outcome, failure)
        after == Persisted(outcome, failure)
    IN  /\ nodes' = after.nodes
        /\ edges' = after.edges
        /\ review_history' = after.review_history
        /\ history_seq' = after.history_seq
        /\ result' = [op |-> op, arg |-> arg,
                      error |-> IF raised THEN "StoreFailure" ELSE outcome.error,
                      ret |-> IF raised \/ outcome.error # "OK" THEN None ELSE outcome.ret]
        /\ UNCHANGED now

ToolAddNode ==
    \E node_data \in PatchCreates, failure \in StorePoints :
        Tool("add_node", node_data, AddNodeOutcome(node_data), failure)

ToolAddEdge ==
    \E edge_data \in HistoryEdgeCreates, failure \in StorePoints :
        Tool("add_edge", edge_data, AddEdgeOutcome(edge_data), failure)

ToolUpdateNode ==
    \E node_id \in {IdA, IdB}, update_data \in HistoryPatches, failure \in StorePoints :
        /\ history_seq < MaxHistoryRows
        /\ Tool("update_node", [node_id |-> node_id, update_data |-> update_data],
                UpdateNodeOutcome(node_id, update_data), failure)

ToolNext ==
    \/ ToolAddNode
    \/ ToolAddEdge
    \/ ToolUpdateNode

ToolSpec == Init /\ [][ToolNext]_vars

\* C23: whenever add_node, add_edge or update_node ends in a failure result
\* (NotFound, DuplicateID, DuplicateEdge, CycleDetected, InvalidInput or a
\* store failure at any step), the persisted nodes, edges and review history
\* are exactly what they were before the call.
C23_NoPartialUpdate ==
    [][(result'.op \in {"add_node", "add_edge", "update_node"} /\ result'.error # "OK")
       => StoreUnchanged]_vars

-----------------------------------------------------------------------------
(* The remaining query types and QueryEngine.query *)

_query_struggling(node_rows, domain, limit) ==
    LET hard == SelectSeq(node_rows, LAMBDA n : /\ n.difficulty > 50
                                                /\ n.mastery_level < 40
                                                /\ DomainMatches(n, domain))
        ordered == OrderBy(hard, [n \in SeqToSet(hard) |->
                                     0 - (n.difficulty - n.mastery_level)], << >>)
    IN  [query_type |-> "struggling", nodes |-> LimitRows(ordered, limit),
         count |-> Len(LimitRows(ordered, limit))]

_query_stalled(node_rows, domain, limit) ==
    LET stalled == SelectSeq(node_rows, LAMBDA n : /\ n.review_count >= 3
                                                   /\ n.mastery_level < 50
                                                   /\ DomainMatches(n, domain))
        ordered == OrderBy(stalled, [n \in SeqToSet(stalled) |-> 0 - n.review_count], << >>)
    IN  [query_type |-> "stalled", nodes |-> LimitRows(ordered, limit),
         count |-> Len(LimitRows(ordered, limit))]

_query_misconceptions(node_rows, domain, limit) ==
    LET found == SelectSeq(node_rows, LAMBDA n : /\ n.misconceptions # << >>
                                                 /\ DomainMatches(n, domain))
    IN  [query_type |-> "misconceptions", nodes |-> LimitRows(found, limit),
         count |-> Len(LimitRows(found, limit))]

\* The code point of a character, for the BINARY collation of ORDER BY.
CodePoint(ch) ==
    CASE ch = "0" -> 48 [] ch = "1" -> 49
      [] ch = "A" -> 65 [] ch = "B" -> 66 [] ch = "C" -> 67
      [] ch = "_" -> 95
      [] ch = "a" -> 97 [] ch = "b" -> 98 [] ch = "c" -> 99 [] ch = "d" -> 100
      [] ch = "e" -> 101 [] ch = "n" -> 110 [] ch = "o" -> 111
      [] OTHER -> 32

RECURSIVE TextBefore(_, _)
TextBefore(s, t) ==
    IF t = << >> THEN FALSE
    ELSE IF s = << >> THEN TRUE
    ELSE IF CodePoint(Head(s)) # CodePoint(Head(t)) THEN CodePoint(Head(s)) < CodePoint(Head(t))
    ELSE TextBefore(Tail(s), Tail(t))

_query_all_nodes(node_rows, domain, limit) ==
    LET selected == SelectSeq(node_rows, LAMBDA n : DomainMatches(n, domain))
        ordered == OrderBy(selected,
                           [n \in SeqToSet(selected) |->
                               Cardinality({m \in SeqToSet(selected) :
                                               TextBefore(m.concept, n.concept)})],
                           << >>)
    IN  [query_type |-> "all_nodes", nodes |-> LimitRows(ordered, limit),
         count |-> Len(LimitRows(ordered, limit))]

QueryType ==
    {"prerequisites", "ready_to_learn", "due_for_review", "struggling", "stalled",
     "misconceptions", "knowledge_gaps", "next_recommended", "all_nodes"}

\* node_rows, rows: the order in which the store returns the node and edge
\* rows; set_order: the iteration order of the visited set of get_subgraph.
query(query_type, node_id, domain, limit, node_rows, rows, set_order, clock) ==
    LET ns == SeqToSet(node_rows)
        es == SeqToSet(rows)
    IN  CASE query_type = "prerequisites" -> _query_prerequisites(ns, rows, node_id, limit, set_order)
          [] query_type = "ready_to_learn" -> _query_ready_to_learn(node_rows, es, domain, limit)
          [] query_type = "due_for_review" -> _query_due_for_review(node_rows, domain, limit, clock)
          [] query_type = "struggling" -> _query_struggling(node_rows, domain, limit)
          [] query_type = "stalled" -> _query_stalled(node_rows, domain, limit)
          [] query_type = "misconceptions" -> _query_misconceptions(node_rows, domain, limit)
          [] query_type = "knowledge_gaps" -> _query_knowledge_gaps(node_rows, es, domain, limit)
          [] query_type = "next_recommended" ->
                 _query_next_recommended(node_rows, es, domain, limit, clock)
          [] query_type = "all_nodes" -> _query_all_nodes(node_rows, domain, limit)

-----------------------------------------------------------------------------
(* The query specification: the nodes and patches of the statistics        *)
(* specification, a prerequisite and a related edge, and every query type. *)

QueryEdgeCreates ==
    {EdgeCreate(IdA, IdB, PREREQUISITE, 100), EdgeCreate(IdA, IdB, RELATED_TO, 100)}

QueryAddEdge == \E edge_data \in QueryEdgeCreates : add_edge(edge_data)

\* A query after a query finds the store of the first one.
QueryGraph ==
    /\ result.op # "query_graph"
    /\ \E query_type \in QueryType, limit \in RecommendLimits,
          node_rows \in Orders(nodes), rows \in Orders(edges) :
          \/ /\ query_type = "prerequisites"
             /\ \E node_id \in {None} \cup {Some(id) : id \in NodeIds},
                   set_order \in Orders(NodeIds) :
                   Answer("query_graph",
                          [query_type |-> query_type, node_id |-> node_id,
                           domain |-> None, limit |-> limit],
                          query(query_type, node_id, None, limit, node_rows, rows,
                                set_order, now))
          \/ /\ query_type # "prerequisites"
             /\ \E domain \in {None, Some("math")} :
                   Answer("query_graph",
                          [query_type |-> query_type, node_id |-> None,
                           domain |-> domain, limit |-> limit],
                          query(query_type, None, domain, limit, node_rows, rows,
                                << >>, now))

QueryNext ==
    \/ StatisticsAddNode
    \/ StatisticsUpdateNode
    \/ QueryAddEdge
    \/ QueryGraph

QuerySpec == Init /\ [][QueryNext]_vars

\* The result nodes, or recommendations, of an answer.
C24_Results(answer) ==
    IF "recommendations" \in DOMAIN answer THEN answer.recommendations ELSE answer.nodes

\* C24: for every query type and every limit >= 0, query_graph returns at
\* most limit result nodes (or recommendations), and no query changes a
\* node, an edge or a review-history row.
C24_LimitAndReadOnly ==
    [][result'.op = "query_graph"
       => /\ result'.arg.limit >= 0 => Len(C24_Results(Get(result'.ret))) <= result'.arg.limit
          /\ StoreUnchanged]_vars

-----------------------------------------------------------------------------
(* The due specification: two nodes, reviews and mastery patches, deletion *)
(* of a node, days passing, and due_for_review with a limit above the      *)
(* number of nodes.                                                         *)

DueTick ==
    /\ now < MaxDueClock
    /\ now' = now + 1
    /\ result' = NoCall
    /\ UNCHANGED <<nodes, edges, review_history, history_seq>>

DueForReview ==
    \E node_rows \in Orders(nodes) :
        Answer("due_for_review", [domain |-> None, limit |-> 10],
               _query_due_for_review(node_rows, None, 10, now))

DueNext ==
    \/ HistoryAddNode
    \/ HistoryUpdateNode
    \/ HistoryDeleteNode
    \/ DueTick
    \/ DueForReview

DueSpec == Init /\ [][DueNext]_vars

\* The times of the quality-bearing updates of a node.
C25_ReviewTimes(n) == {h.reviewed_at : h \in {g \in review_history : g.node_id = n.id}}

\* At time t the node has been reviewed and interval_days days have passed
\* since its latest review.
C25_IsDue(n, hs, t) ==
    LET times == {h.reviewed_at : h \in {g \in hs : g.node_id = n.id}}
    IN  /\ times # {}
        /\ \E latest \in times : /\ \A other \in times : other <= latest
                                 /\ t >= latest + n.interval_days

\* C25: due_for_review returns a node exactly when it has had a
\* quality-bearing update and the time is at or past that of the latest one
\* plus interval_days days; a node never reviewed is never due, a node is
\* not due for at least a day after a review, a due node stays due until it
\* is reviewed again or deleted, and the answer is in ascending order of
\* next_review_at.
C25_DueForReview ==
    /\ [](result.op = "due_for_review"
          => LET answer == Get(result.ret).nodes
             IN  /\ SeqToSet(answer) = {n \in nodes : C25_IsDue(n, review_history, now)}
                 /\ Len(answer) = Cardinality(SeqToSet(answer))
                 /\ \A i \in 1..Len(answer) :
                       /\ answer[i].review_count >= 1
                       /\ \A t \in C25_ReviewTimes(answer[i]) : now >= t + 1
                 /\ \A i, j \in 1..Len(answer) :
                       i < j => Get(answer[i].next_review_at) <= Get(answer[j].next_review_at))
    /\ [][\A n \in nodes :
             (C25_IsDue(n, review_history, now)
              /\ \E m \in nodes' : m.id = n.id /\ m.review_count = n.review_count)
             => \E m \in nodes' : m.id = n.id /\ C25_IsDue(m, review_history', now')]_vars

\* A node reviewed a day ago is returned, and a node reviewed today is not.
C25_Witness ==
    /\ result.op = "due_for_review"
    /\ Len(Get(result.ret).nodes) = 1
    /\ \E n \in nodes : n.review_count >= 1 /\ ~C25_IsDue(n, review_history, now)
    /\ \E n \in nodes : Get(result.ret).nodes[1] = n /\ Get(n.next_review_at) = now

-----------------------------------------------------------------------------
(* Two callers at once.  Each call opens its own connection.  Its SELECTs  *)
(* run outside a transaction; the first INSERT or UPDATE opens one, which  *)
(* holds the write lock of the store until conn.commit().  A call is       *)
(* therefore a read step, which sees the committed store, and a write step *)
(* that applies what the caller computed from what it read.                *)

CurrentStore ==
    [nodes |-> nodes, edges |-> edges, review_history |-> review_history,
     history_seq |-> history_seq]

Call(op, arg) == [op |-> op, arg |-> arg]

\* The checks of a call on the store it reads.
ReadStep(seen, call, clock) ==
    CASE call.op = "add_node" ->
            IF ~NodeCreateValid(call.arg) THEN "InvalidInput"
            ELSE IF HasNode(seen.nodes,
                            IF IsNone(call.arg.node_id)
                            THEN _generate_node_id(call.arg.concept)
                            ELSE Get(call.arg.node_id))
                 THEN "DuplicateID"
            ELSE "OK"
      [] call.op = "add_edge" ->
            IF ~EdgeCreateValid(call.arg) THEN "InvalidInput"
            ELSE AddEdgeCheck(seen.nodes, seen.edges, call.arg)
      [] call.op = "update_node" ->
            IF ~NodeUpdateValid(call.arg.update_data) THEN "InvalidInput"
            ELSE IF ~HasNode(seen.nodes, call.arg.node_id) THEN "NotFound"
            ELSE IF /\ ~IsNone(call.arg.update_data.quality)
                    /\ ReviewOf(NodeById(seen.nodes, call.arg.node_id),
                                call.arg.update_data, clock).error # "OK"
                 THEN "InvalidInput"
            ELSE "OK"

\* The keys of the updates dict: the columns that UPDATE nodes SET assigns.
SetColumns(current_node, update_data, clock) ==
    (IF ~IsNone(update_data.concept) THEN {"concept"} ELSE {})
    \cup (IF ~IsNone(update_data.domain) THEN {"domain"} ELSE {})
    \cup (IF ~IsNone(update_data.difficulty) THEN {"difficulty"} ELSE {})
    \cup (IF DimensionsPresent(update_data)
          THEN {"mastery_recall", "mastery_application", "mastery_explanation",
                "mastery_level"}
          ELSE {})
    \cup (IF ~IsNone(update_data.mastery_level) THEN {"mastery_level"} ELSE {})
    \cup (IF ~IsNone(update_data.quality)
          THEN {"ease_factor", "interval_days", "repetitions", "next_review_at",
                "last_reviewed_at", "review_count"}
               \cup (IF IsNone(ReviewOf(current_node, update_data, clock).suggested_mastery)
                     THEN {} ELSE {"mastery_level"})
          ELSE {})
    \cup (IF Truthy(update_data.misconception_detected) THEN {"misconceptions"} ELSE {})
    \cup (IF HasUpdates(update_data) THEN {"updated_at"} ELSE {})

\* The writes of a call whose checks passed on `seen`, committed on `store`.
\* The values written are the ones computed from `seen`; the keys and the
\* foreign keys of the tables are enforced against `store`.
WriteStep(store, seen, call, clock) ==
    CASE call.op = "add_node" ->
            LET node_id == IF IsNone(call.arg.node_id)
                           THEN _generate_node_id(call.arg.concept)
                           ELSE Get(call.arg.node_id)
            IN  IF HasNode(store.nodes, node_id)
                THEN [store |-> store, error |-> "StoreFailure"]
                ELSE [store |-> [store EXCEPT !.nodes =
                                    @ \cup {NewNodeRow(node_id, call.arg, clock)}],
                      error |-> "OK"]
      [] call.op = "add_edge" ->
            IF ~EdgeInsertAllowed(store.nodes, store.edges, call.arg)
            THEN [store |-> store, error |-> "StoreFailure"]
            ELSE [store |-> [store EXCEPT !.edges = @ \cup {call.arg}], error |-> "OK"]
      [] call.op = "update_node" ->
            LET update_data == call.arg.update_data
                reviewed == ~IsNone(update_data.quality)
                current_node == NodeById(seen.nodes, call.arg.node_id)
                computed == UpdatedRow(current_node, update_data, clock)
                columns == SetColumns(current_node, update_data, clock)
                stored == {n \in store.nodes : n.id = call.arg.node_id}
                assigned(n) == [c \in DOMAIN n |-> IF c \in columns THEN computed[c] ELSE n[c]]
            IN  IF reviewed /\ foreign_keys /\ stored = {}
                THEN [store |-> store, error |-> "StoreFailure"]
                ELSE [store |->
                         [store EXCEPT
                            !.nodes = (@ \ stored) \cup {assigned(n) : n \in stored},
                            !.review_history =
                                IF reviewed
                                THEN @ \cup {HistoryRow(store.history_seq + 1, current_node,
                                                        update_data, clock)}
                                ELSE @,
                            !.history_seq = IF reviewed THEN @ + 1 ELSE @],
                      error |-> IF stored = {} THEN "StoreFailure" ELSE "OK"]

\* A call with no other caller at work: its checks and its writes on one store.
Serial(store, call, clock) ==
    IF ReadStep(store, call, clock) = "OK" THEN WriteStep(store, store, call, clock).store
    ELSE store

-----------------------------------------------------------------------------
(* The concurrent specification: a store of up to two nodes, and two       *)
(* callers that each make one call.  result.arg holds, for each caller,    *)
(* its call, its position ("called", "checked", "done"), what it read and  *)
(* its outcome; result.ret holds the store before the two calls.           *)

Callers == {1, 2}

ConcurrentCalls ==
    {Call("add_node", node_data) : node_data \in PatchCreates}
    \cup {Call("add_edge", edge_data) :
             edge_data \in {EdgeCreate(IdA, IdB, PREREQUISITE, 100),
                            EdgeCreate(IdB, IdA, PREREQUISITE, 100),
                            EdgeCreate(IdB, IdA, RELATED_TO, 100)}}
    \cup {Call("update_node", [node_id |-> IdA, update_data |-> update_data]) :
             update_data \in HistoryPatches}

ConcurrentStores ==
    {[nodes |-> {NewNodeRow(_generate_node_id(node_data.concept), node_data, 0) :
                    node_data \in created},
      edges |-> {}, review_history |-> {}, history_seq |-> 0] :
        created \in SUBSET PatchCreates}

ConcurrentInit ==
    \E store \in ConcurrentStores, calls \in [Callers -> ConcurrentCalls] :
        /\ nodes = store.nodes
        /\ edges = store.edges
        /\ review_history = store.review_history
        /\ history_seq = store.history_seq
        /\ now = 0
        /\ result = [op |-> "concurrent",
                     arg |-> [c \in Callers |->
                                 [call |-> calls[c], pc |-> "called",
                                  seen |-> store, error |-> "OK"]],
                     error |-> "OK", ret |-> Some(store)]

\* The SELECTs of a caller.
CallerReads(c) ==
    /\ result.arg[c].pc = "called"
    /\ LET error == ReadStep(CurrentStore, result.arg[c].call, now)
       IN  result' = [result EXCEPT !.arg[c] =
                         [@ EXCEPT !.pc = IF error = "OK" THEN "checked" ELSE "done",
                                   !.seen = CurrentStore, !.error = error]]
    /\ UNCHANGED <<nodes, edges, review_history, history_seq, now>>

\* The INSERT or UPDATE statements of a caller and its commit.
CallerWrites(c) ==
    /\ result.arg[c].pc = "checked"
    /\ LET written == WriteStep(CurrentStore, result.arg[c].seen, result.arg[c].call, now)
       IN  /\ nodes' = written.store.nodes
           /\ edges' = written.store.edges
           /\ review_history' = written.store.review_history
           /\ history_seq' = written.store.history_seq
           /\ result' = [result EXCEPT !.arg[c] =
                            [@ EXCEPT !.pc = "done", !.error = written.error]]
    /\ UNCHANGED now

ConcurrentNext ==
    \/ \E c \in Callers : CallerReads(c)
    \/ \E c \in Callers : CallerWrites(c)

ConcurrentSpec == ConcurrentInit /\ [][ConcurrentNext]_vars

\* C26: every interleaving of the read and write steps of two concurrent
\* mutating calls leaves a persisted state that one of the two serial
\* executions of the same calls also leaves.
C26_Serializable ==
    (result.op = "concurrent" /\ \A c \in Callers : result.arg[c].pc = "done")
    => LET before == Get(result.ret)
           first == result.arg[1].call
           second == result.arg[2].call
       IN  \/ CurrentStore = Serial(Serial(before, first, now), second, now)
           \/ CurrentStore = Serial(Serial(before, second, now), first, now)

-----------------------------------------------------------------------------
(* The suggestion specification: calculate_next_review on every quality,   *)
(* repetition counts that reach each threshold, and every current mastery  *)
(* that is a multiple of 0.05.                                              *)

\* The largest current_repetitions drawn.
MaxSuggestRepetitions == 4

SuggestInputs ==
    {[quality |-> quality, difficulty |-> 50, current_ease_factor |-> 250,
      current_interval |-> 1, current_repetitions |-> current_repetitions,
      current_mastery |-> 5 * twentieth] :
        quality \in 0..5, current_repetitions \in 0..MaxSuggestRepetitions,
        twentieth \in 0..20}

SuggestInit ==
    /\ nodes = {}
    /\ edges = {}
    /\ review_history = {}
    /\ history_seq = 0
    /\ now = 0
    /\ result \in {Pending(in) : in \in SuggestInputs}

SuggestNext == Schedule

SuggestSpec == SuggestInit /\ [][SuggestNext]_vars

\* The threshold target for a quality, the new repetitions and the current
\* mastery, in hundredths.
C27_Target(quality, repetitions, current_mastery) ==
    CASE quality >= 4 /\ repetitions >= 4 -> 90 + 5 * (quality - 4)
      [] quality >= 4 /\ repetitions >= 2 /\ repetitions < 4 -> 75 + 5 * (quality - 4)
      [] quality = 3 /\ repetitions >= 2 -> 60
      [] quality >= 3 /\ repetitions < 2 -> 40
      [] quality = 2 -> 25
      [] quality < 2 -> IF current_mastery - 10 > 10 THEN current_mastery - 10 ELSE 10

\* C27: the suggestion of the scheduler is the threshold target for the
\* quality, the new repetitions and the current mastery, returned exactly
\* when it differs from the current mastery by at least 0.05; otherwise no
\* suggestion is returned.
C27_Suggestion ==
    (Scheduled /\ result.error = "OK")
    => LET sm2_result == Get(result.ret)
           target == C27_Target(result.arg.quality, sm2_result.repetitions,
                                result.arg.current_mastery)
           differs == \/ target - result.arg.current_mastery >= 5
                      \/ result.arg.current_mastery - target >= 5
       IN  sm2_result.suggested_mastery = IF differs THEN Some(target) ELSE None

-----------------------------------------------------------------------------
(* The misconception specification: two nodes and patches that carry one   *)
(* of three misconceptions, the empty string, a mastery level, or nothing. *)

MisconceptionPatches ==
    {[EmptyPatch EXCEPT !.misconception_detected = Some(m)] : m \in {"m1", "m2", "m3", ""}}
    \cup {EmptyPatch, [EmptyPatch EXCEPT !.mastery_level = Some(90)]}

MisconceptionUpdateNode ==
    \E node_id \in {IdA, IdB}, update_data \in MisconceptionPatches :
        update_node(node_id, update_data)

MisconceptionNext ==
    \/ HistoryAddNode
    \/ MisconceptionUpdateNode

MisconceptionSpec == Init /\ [][MisconceptionNext]_vars

C28_Prefix(before, after) ==
    Len(before) <= Len(after) /\ SubSeq(after, 1, Len(before)) = before

C28_NoRepeat(sq) == \A i, j \in 1..Len(sq) : sq[i] = sq[j] => i = j

\* The list of every node only grows at the end and holds no entry twice.
C28_AppendOnly ==
    \A n \in nodes : \A m \in nodes' :
        m.id = n.id => /\ C28_Prefix(n.misconceptions, m.misconceptions)
                       /\ C28_NoRepeat(m.misconceptions)

\* C28 as stated: across update_node calls the misconceptions list of a node
\* only grows by appending at the end, existing entries keep their content
\* and order, no entry occurs twice, a call with misconception_detected = m
\* leaves the list unchanged when m is already present and appends exactly m
\* otherwise, and a call without misconception_detected never changes it.
C28_Original ==
    [][/\ C28_AppendOnly
       /\ (result'.op = "update_node" /\ result'.error = "OK")
          => LET before == NodeById(nodes, result'.arg.node_id).misconceptions
                 after == NodeById(nodes', result'.arg.node_id).misconceptions
                 detected == result'.arg.update_data.misconception_detected
             IN  IF IsNone(detected) \/ InSeq(Get(detected), before)
                 THEN after = before
                 ELSE after = Append(before, Get(detected))]_vars

\* C28 as amended: the same, for a misconception_detected that is not the
\* empty string; a call with the empty string, like a call without
\* misconception_detected, never changes the list.
C28_Misconceptions ==
    [][/\ C28_AppendOnly
       /\ (result'.op = "update_node" /\ result'.error = "OK")
          => LET before == NodeById(nodes, result'.arg.node_id).misconceptions
                 after == NodeById(nodes', result'.arg.node_id).misconceptions
                 detected == result'.arg.update_data.misconception_detected
             IN  IF IsNone(detected) \/ Get(detected) = "" \/ InSeq(Get(detected), before)
                 THEN after = before
                 ELSE after = Append(before, Get(detected))]_vars

\* A call that repeats the first of two recorded misconceptions.
C28_Witness ==
    /\ result.op = "update_node"
    /\ result.error = "OK"
    /\ result.arg.update_data.misconception_detected = Some("m1")
    /\ NodeById(nodes, result.arg.node_id).misconceptions = << "m1", "m2" >>

-----------------------------------------------------------------------------
(* The edge-list specification: a related edge from a node to itself, a    *)
(* link declared twice under two relation types, and an edge into the      *)
(* looping node; subgraph queries from every id.                           *)

LoopEdgeCreates ==
    {EdgeCreate(IdA, IdA, RELATED_TO, 100),
     EdgeCreate(IdA, IdB, PREREQUISITE, 100),
     EdgeCreate(IdA, IdB, RELATED_TO, 100),
     EdgeCreate(IdC, IdA, RELATED_TO, 100)}

LoopAddEdge == \E edge_data \in LoopEdgeCreates : add_edge(edge_data)

LoopNext ==
    \/ QueryAddNode
    \/ LoopAddEdge
    \/ GetSubgraph

LoopSpec == Init /\ [][LoopNext]_vars

\* How often a row occurs in a list.
C29_Count(sq, e) == Cardinality({i \in 1..Len(sq) : sq[i] = e})

\* The ids that the search expands: those at a hop distance below depth.
C29_Expanded(center, depth, direction) ==
    IF depth <= 0 THEN {} ELSE HopBall(edges, direction, {center}, depth - 1)

\* C29: in the edge list of get_subgraph each stored edge appears at most
\* once when the direction is upstream or downstream and at most twice when
\* it is both; with both, an edge appears twice when it is a self-referencing
\* edge of an expanded node or when both of its endpoints are expanded; and
\* every returned edge has both endpoints among the returned nodes.
C29_EdgeList ==
    result.op = "get_subgraph"
    => LET answer == Get(result.ret)
           direction == result.arg.direction
           expanded == C29_Expanded(result.arg.center_node_id, result.arg.depth, direction)
           returned == SeqToSet(IdsOf(answer.nodes))
       IN  /\ \A i \in 1..Len(answer.edges) :
                 /\ answer.edges[i] \in edges
                 /\ answer.edges[i].source_id \in returned
                 /\ answer.edges[i].target_id \in returned
           /\ \A e \in edges :
                 /\ direction # "both" => C29_Count(answer.edges, e) <= 1
                 /\ direction = "both" => C29_Count(answer.edges, e) <= 2
                 /\ (direction = "both" /\ e.source_id \in expanded /\ e.target_id \in expanded)
                    => C29_Count(answer.edges, e) = 2

\* C29 witness: asked both ways from b with depth 2, the loop on a and the
\* two links from a to b are each listed twice and the edge from c once.
C29_Witness ==
    /\ result.op = "get_subgraph"
    /\ result.arg = [center_node_id |-> IdB, depth |-> 2, direction |-> "both"]
    /\ edges = LoopEdgeCreates
    /\ C29_Count(Get(result.ret).edges, EdgeCreate(IdA, IdA, RELATED_TO, 100)) = 2
    /\ C29_Count(Get(result.ret).edges, EdgeCreate(IdA, IdB, PREREQUISITE, 100)) = 2
    /\ C29_Count(Get(result.ret).edges, EdgeCreate(IdC, IdA, RELATED_TO, 100)) = 1
    /\ Len(Get(result.ret).edges) = 7

-----------------------------------------------------------------------------
(* The count specification: the five mutations of the history              *)
(* specification, with a failed review among the patches.                   *)

CountPatches == HistoryPatches \cup {[EmptyPatch EXCEPT !.quality = Some(1)]}

CountUpdateNode ==
    \E node_id \in {IdA, IdB}, update_data \in CountPatches :
        /\ ~IsNone(update_data.quality) => history_seq < MaxHistoryRows
        /\ update_node(node_id, update_data)

CountNext ==
    \/ HistoryAddNode
    \/ CountUpdateNode
    \/ HistoryAddEdge
    \/ HistoryDeleteEdge
    \/ HistoryDeleteNode

CountSpec == Init /\ [][CountNext]_vars

\* C30: under any sequence of add_node, update_node, add_edge, delete_edge
\* and delete_node, the review_count of every existing node equals the
\* number of review-history rows that reference it, is at least its
\* repetitions, is 0 exactly when next_review_at and last_reviewed_at are
\* null, and never decreases while the node exists.
C30_ReviewCount ==
    /\ [](\A n \in nodes :
             /\ n.review_count = Cardinality({h \in review_history : h.node_id = n.id})
             /\ n.review_count >= n.repetitions
             /\ n.review_count = 0 <=> (IsNone(n.next_review_at) /\ IsNone(n.last_reviewed_at))
             /\ n.review_count = 0 <=> (IsNone(n.next_review_at) \/ IsNone(n.last_reviewed_at)))
    /\ [][\A n \in nodes : \A m \in nodes' :
             m.id = n.id => m.review_count >= n.review_count]_vars

\* C30 witness: a node passed one review and failed the next, after the
\* other node was deleted.
C30_Witness ==
    /\ result.op = "update_node"
    /\ result.error = "OK"
    /\ ~HasNode(nodes, IdB)
    /\ \E n \in nodes : /\ n.review_count = 2
                        /\ n.repetitions = 0
                        /\ Cardinality({h \in review_history : h.node_id = n.id}) = 2

====
